---- MODULE Spec2Model ----
(***************************************************************************)
(* State-machine model of the DataTable component                          *)
(* (src/src/components/DataTable/index.tsx) and of the record generator    *)
(* (src/src/data/sampleData.ts).  JavaScript strings are TLA+ strings; the *)
(* character-level functions (trim, parseFloat, parseInt, the regular      *)
(* expressions of the validation rules) are computed character by          *)
(* character with Len and SubSeq.                                          *)
(***************************************************************************)
EXTENDS Integers, Sequences, FiniteSets, TLC

\* The state of the component (index.tsx 118-128) and of its table instance:
\*   data                 the records, a sequence of Student records
\*   sorting              the sort rules [id, desc], first rule first
\*   columnFilters        the column filters [id, value]
\*   rowSelection         the indices of the selected rows (the keys of the
\*                        rowSelection object: no getRowId is given)
\*   globalFilter         the search text
\*   editingCell          Null, or Some([rowId, columnId])
\*   editValue            the staged string of the edit input
\*   selectedStatus       the statuses of the status filter buttons
\*   validationErrors     the recorded errors [field, message]
\*   focusedCell          Null, or Some([rowId, columnId])
\*   isKeyboardMode       keyboard navigation is in use
\*   pagination           [pageIndex, pageSize] of the table instance
\*   statusEffectPending  the effect on selectedStatus (367-388) has yet to
\*                        run for the last render
\*   commits              the number of saveEdit calls handled so far
\* The state of the hook useTableSettings (hooks/useTableSettings.ts):
\*   localStorage         the item 'tableSettings' of the storage: Null, or
\*                        Some(text)
\*   settings             the settings state of the hook, a JSON value, or
\*                        the mark that the hook has yet to be mounted or
\*                        that its initializer threw
\*   output               the last thing the component handed to the
\*                        browser: Null, or Some of an alert, of a confirm
\*                        dialog with the user's answer, or of a download
\*                        with its text
VARIABLES data, sorting, columnFilters, rowSelection, globalFilter,
          editingCell, editValue, selectedStatus, validationErrors,
          focusedCell, isKeyboardMode, pagination, statusEffectPending,
          commits, localStorage, settings, output

\* the variables of the hook useTableSettings
hookVars == <<localStorage, settings>>

vars == <<data, sorting, columnFilters, rowSelection, globalFilter,
          editingCell, editValue, selectedStatus, validationErrors,
          focusedCell, isKeyboardMode, pagination, statusEffectPending,
          commits, hookVars, output>>

(***************************************************************************)
(* Bounds of the model.                                                    *)
(***************************************************************************)
\* number of generated students (the component asks for 50)
NumStudents == 3
\* number of saveEdit calls explored in one behaviour
MaxCommits == 1
\* number of simultaneous sort rules explored
MaxSortRules == 3

(***************************************************************************)
(* null / optional values: null is the empty sequence, a present value v   *)
(* is <<v>>.                                                               *)
(***************************************************************************)
Null == <<>>
Some(v) == <<v>>
Val(o) == o[1]

(***************************************************************************)
(* Characters and strings.                                                 *)
(***************************************************************************)
Min(a, b) == IF a < b THEN a ELSE b
Max(a, b) == IF a > b THEN a ELSE b

\* String.prototype.substring on 1-based inclusive positions, clamped to s
Substring(s, from, to) ==
    IF Max(from, 1) > Min(to, Len(s)) THEN ""
    ELSE SubSeq(s, Max(from, 1), Min(to, Len(s)))

\* the character of s at position i, "" outside s
CharAt(s, i) == Substring(s, i, i)

\* the characters matched by \s and removed by String.prototype.trim
Whitespace == {" ", "\t", "\n", "\r", "\f"}

Digits == {"0", "1", "2", "3", "4", "5", "6", "7", "8", "9"}

LatinLetters ==
    {"A", "B", "C", "D", "E", "F", "G", "H", "I", "J", "K", "L", "M",
     "N", "O", "P", "Q", "R", "S", "T", "U", "V", "W", "X", "Y", "Z",
     "a", "b", "c", "d", "e", "f", "g", "h", "i", "j", "k", "l", "m",
     "n", "o", "p", "q", "r", "s", "t", "u", "v", "w", "x", "y", "z"}

\* value of a digit in radix 10 or 16 (parseInt, parseFloat)
DigitVal(c) ==
    CASE c = "0" -> 0 [] c = "1" -> 1 [] c = "2" -> 2 [] c = "3" -> 3
      [] c = "4" -> 4 [] c = "5" -> 5 [] c = "6" -> 6 [] c = "7" -> 7
      [] c = "8" -> 8 [] c = "9" -> 9
      [] c \in {"a", "A"} -> 10 [] c \in {"b", "B"} -> 11
      [] c \in {"c", "C"} -> 12 [] c \in {"d", "D"} -> 13
      [] c \in {"e", "E"} -> 14 [] c \in {"f", "F"} -> 15
      [] OTHER -> 99

DigitChar(d) == CharAt("0123456789", d + 1)

\* String.prototype.trim
Trim(s) ==
    LET keep == {i \in 1..Len(s) : CharAt(s, i) \notin Whitespace}
    IN  IF keep = {} THEN ""
        ELSE LET first == CHOOSE i \in keep : \A j \in keep : i <= j
                 last  == CHOOSE i \in keep : \A j \in keep : j <= i
             IN  Substring(s, first, last)

\* s with its leading white space removed (first step of parseInt/parseFloat)
TrimStart(s) ==
    LET keep == {i \in 1..Len(s) : CharAt(s, i) \notin Whitespace}
    IN  IF keep = {} THEN ""
        ELSE Substring(s, CHOOSE i \in keep : \A j \in keep : i <= j, Len(s))

\* length of the longest run of radix digits of s that starts at position p
DigitRun(s, p, radix) ==
    LET stops == {i \in p..Len(s) : DigitVal(CharAt(s, i)) >= radix}
    IN  IF stops = {} THEN Max(Len(s) - p + 1, 0)
        ELSE (CHOOSE i \in stops : \A j \in stops : i <= j) - p

RECURSIVE DigitsValue(_, _)
\* the number written by the digit string s in the given radix
DigitsValue(s, radix) ==
    IF Len(s) = 0 THEN 0
    ELSE DigitsValue(Substring(s, 1, Len(s) - 1), radix) * radix
             + DigitVal(CharAt(s, Len(s)))

RECURSIVE Pow10(_)
Pow10(n) == IF n <= 0 THEN 1 ELSE 10 * Pow10(n - 1)

RECURSIVE NatToStr(_)
NatToStr(n) ==
    IF n < 10 THEN DigitChar(n) ELSE NatToStr(n \div 10) \o DigitChar(n % 10)

\* String(value) of an integer
IntToStr(n) == IF n < 0 THEN "-" \o NatToStr(0 - n) ELSE NatToStr(n)

\* String.prototype.padStart(width, '0') of a natural number
PadStart(s, width) ==
    LET RECURSIVE pad(_)
        pad(t) == IF Len(t) >= width THEN t ELSE pad("0" \o t)
    IN  pad(s)

\* Array.prototype.includes / String membership in a list
Includes(list, v) == \E i \in 1..Len(list) : list[i] = v

\* String.prototype.includes(" ")
ContainsChar(s, c) == \E i \in 1..Len(s) : CharAt(s, i) = c

(***************************************************************************)
(* Numbers as JavaScript parses them.  A parsed number is NaN, or a        *)
(* rational num/den with den a power of ten (possibly infinite).           *)
(***************************************************************************)
NaN == [kind |-> "NaN", num |-> 0, den |-> 1]
Num(n, d) == [kind |-> "num", num |-> n, den |-> d]
Infinity(sign) == [kind |-> "inf", num |-> sign, den |-> 1]

IsNaN(v) == v.kind = "NaN"

\* NumLess with the comparison off by one: the bound's neighbour passes
NumLess_OffByOne(v, n) ==
    CASE v.kind = "NaN" -> FALSE
      [] v.kind = "inf" -> v.num < 0
      [] OTHER -> v.num < (n - 1) * v.den

\* v < n and v > n for a parsed number v and an integer n (false for NaN)
NumLess(v, n) ==
    CASE v.kind = "NaN" -> FALSE
      [] v.kind = "inf" -> v.num < 0
      [] OTHER -> v.num < n * v.den

NumGreater(v, n) ==
    CASE v.kind = "NaN" -> FALSE
      [] v.kind = "inf" -> v.num > 0
      [] OTHER -> v.num > n * v.den

\* position after an optional sign at the start of s
AfterSign(s) == IF CharAt(s, 1) \in {"+", "-"} THEN 2 ELSE 1

\* -1 if s starts with a minus sign, else 1
SignOf(s) == IF CharAt(s, 1) = "-" THEN 0 - 1 ELSE 1

\* the exponent part of a decimal literal at position p of s: its value and
\* the number of characters it takes (0 if there is no complete exponent)
ExponentAt(s, p) ==
    IF CharAt(s, p) \notin {"e", "E"} THEN [value |-> 0, len |-> 0]
    ELSE IF CharAt(s, p + 1) \in {"+", "-"}
    THEN IF DigitRun(s, p + 2, 10) = 0 THEN [value |-> 0, len |-> 0]
         ELSE [value |-> (IF CharAt(s, p + 1) = "-" THEN 0 - 1 ELSE 1)
                           * DigitsValue(Substring(s, p + 2,
                                 p + 1 + DigitRun(s, p + 2, 10)), 10),
               len   |-> 2 + DigitRun(s, p + 2, 10)]
    ELSE IF DigitRun(s, p + 1, 10) = 0 THEN [value |-> 0, len |-> 0]
    ELSE [value |-> DigitsValue(Substring(s, p + 1,
                                 p + DigitRun(s, p + 1, 10)), 10),
          len   |-> 1 + DigitRun(s, p + 1, 10)]

\* sign * intDigits.fracDigits * 10^expo as a parsed number
Decimal(sign, intDigits, fracDigits, expo) ==
    IF Len(intDigits) + Len(fracDigits) = 0 THEN NaN
    ELSE IF expo >= Len(fracDigits)
    THEN Num(sign * DigitsValue(intDigits \o fracDigits, 10)
                 * Pow10(expo - Len(fracDigits)), 1)
    ELSE Num(sign * DigitsValue(intDigits \o fracDigits, 10),
             Pow10(Len(fracDigits) - expo))

\* the decimal literal whose integer digits start at p0 and end before p1
DecimalAt(s, sign, p0, p1) ==
    IF CharAt(s, p1) = "."
    THEN Decimal(sign, Substring(s, p0, p1 - 1),
                 Substring(s, p1 + 1, p1 + DigitRun(s, p1 + 1, 10)),
                 ExponentAt(s, p1 + 1 + DigitRun(s, p1 + 1, 10)).value)
    ELSE Decimal(sign, Substring(s, p0, p1 - 1), "", ExponentAt(s, p1).value)

\* parseFloat of a string without leading white space
parseFloatTrimmed(s) ==
    IF Substring(s, AfterSign(s), AfterSign(s) + 7) = "Infinity"
    THEN Infinity(SignOf(s))
    ELSE DecimalAt(s, SignOf(s), AfterSign(s),
                   AfterSign(s) + DigitRun(s, AfterSign(s), 10))

\* the global parseFloat(string)
parseFloat(str) == parseFloatTrimmed(TrimStart(str))

\* parseInt of a string without leading white space, digits from position p
parseIntAt(s, sign, p, radix) ==
    IF DigitRun(s, p, radix) = 0 THEN Null
    ELSE Some(sign * DigitsValue(Substring(s, p, p + DigitRun(s, p, radix) - 1),
                                 radix))

parseIntTrimmed(s) ==
    IF Substring(s, AfterSign(s), AfterSign(s) + 1) \in {"0x", "0X"}
    THEN parseIntAt(s, SignOf(s), AfterSign(s) + 2, 16)
    ELSE parseIntAt(s, SignOf(s), AfterSign(s), 10)

\* the global parseInt(string) without a radix: Null stands for NaN
parseInt(str) == parseIntTrimmed(TrimStart(str))

(***************************************************************************)
(* Validation rules, error messages and the Field Validator.               *)
(***************************************************************************)
VALID_MAJORS ==
    <<"Computer Science", "Mathematics", "Physics", "Chemistry", "Biology",
      "Engineering", "Business", "Economics", "Psychology", "Literature",
      "History", "Art">>

VALID_STATUSES == <<"active", "graduated", "suspended">>

\* the columns of the table, in display order
AllColumns ==
    <<"select", "id", "name", "age", "grade", "email", "phone", "major",
      "status">>

\* /^[A-Za-z\s\-']{2,50}$/ (the source's class also holds the Cyrillic
\* letters, which TLA+ strings cannot hold; the model's alphabet is ASCII)
NamePattern(s) ==
    /\ Len(s) >= 2
    /\ Len(s) <= 50
    /\ \A i \in 1..Len(s) :
           CharAt(s, i) \in LatinLetters \cup Whitespace \cup {"-", "'"}

\* /^[^\s@]+@[^\s@]+\.[^\s@]+$/
EmailPattern(s) ==
    /\ \A i \in 1..Len(s) : CharAt(s, i) \notin Whitespace
    /\ \E at \in 2..Len(s) :
           /\ CharAt(s, at) = "@"
           /\ \A i \in 1..Len(s) : CharAt(s, i) = "@" => i = at
           /\ \E dot \in (at + 2)..(Len(s) - 1) : CharAt(s, dot) = "."

\* /^\+?[\d\s\-\(\)]{10,15}$/
PhonePattern(s) ==
    LET body == IF CharAt(s, 1) = "+" THEN Substring(s, 2, Len(s)) ELSE s
    IN  /\ Len(body) >= 10
        /\ Len(body) <= 15
        /\ \A i \in 1..Len(body) :
               CharAt(body, i) \in Digits \cup Whitespace \cup {"-", "(", ")"}

\* RegExp.prototype.test for the three patterns of the rules
PatternTest(pattern, s) ==
    CASE pattern = "name"  -> NamePattern(s)
      [] pattern = "email" -> EmailPattern(s)
      [] pattern = "phone" -> PhonePattern(s)

\* the custom rule of name: value.trim().split(' ').length >= 2
NameCustom(value) == ContainsChar(Trim(value), " ")

NoRule == [required |-> FALSE, pattern |-> Null, min |-> Null, max |-> Null,
           enum |-> Null, custom |-> FALSE]

validationRules ==
    [name   |-> [NoRule EXCEPT !.required = TRUE, !.pattern = Some("name"),
                               !.custom = TRUE],
     age    |-> [NoRule EXCEPT !.required = TRUE, !.min = Some(16),
                               !.max = Some(100)],
     grade  |-> [NoRule EXCEPT !.required = TRUE, !.min = Some(0),
                               !.max = Some(100)],
     email  |-> [NoRule EXCEPT !.required = TRUE, !.pattern = Some("email")],
     phone  |-> [NoRule EXCEPT !.required = TRUE, !.pattern = Some("phone")],
     major  |-> [NoRule EXCEPT !.required = TRUE, !.enum = Some(VALID_MAJORS)],
     status |-> [NoRule EXCEPT !.required = TRUE,
                               !.enum = Some(VALID_STATUSES)]]

errorMessages ==
    [name   |-> [required |-> "Name is required",
                 pattern  |-> "Name must contain only letters, spaces, hyphens and apostrophes",
                 custom   |-> "Please enter both first and last name"],
     age    |-> [required |-> "Age is required",
                 min      |-> "Age must be at least 16",
                 max      |-> "Age cannot exceed 100"],
     grade  |-> [required |-> "Grade is required",
                 min      |-> "Grade cannot be negative",
                 max      |-> "Grade cannot exceed 100"],
     email  |-> [required |-> "Email is required",
                 pattern  |-> "Please enter a valid email address"],
     phone  |-> [required |-> "Phone is required",
                 pattern  |-> "Please enter a valid phone number (10-15 digits)"],
     major  |-> [required |-> "Major is required",
                 enum     |-> "Please select a valid major"],
     status |-> [required |-> "Status is required",
                 enum     |-> "Status must be: active, graduated, or suspended"]]

\* (errorMessages as any)[field]?.kind || fallback
ErrorMsg(field, kind, fallback) ==
    IF /\ field \in DOMAIN errorMessages
       /\ kind \in DOMAIN errorMessages[field]
       /\ errorMessages[field][kind] # ""
    THEN errorMessages[field][kind]
    ELSE fallback

ValidationError(field, message) == [field |-> field, message |-> message]

\* the checks of validateValue on the trimmed value, in the source's order
checkRules(field, rules, trimmedValue) ==
    IF rules.required /\ trimmedValue = ""
    THEN Some(ValidationError(field,
                 ErrorMsg(field, "required", "This field is required")))
    ELSE IF rules.enum # Null /\ ~Includes(Val(rules.enum), trimmedValue)
    THEN Some(ValidationError(field,
                 ErrorMsg(field, "enum", "Please select a valid value")))
    ELSE IF /\ rules.pattern # Null
            /\ ~PatternTest(Val(rules.pattern), trimmedValue)
    THEN Some(ValidationError(field,
                 ErrorMsg(field, "pattern", "Invalid format")))
    ELSE IF /\ rules.min # Null
            /\ ~IsNaN(parseFloat(trimmedValue))
            /\ NumLess(parseFloat(trimmedValue), Val(rules.min))
    THEN Some(ValidationError(field,
                 ErrorMsg(field, "min", "Value must be at least "
                                           \o IntToStr(Val(rules.min)))))
    ELSE IF /\ rules.max # Null
            /\ ~IsNaN(parseFloat(trimmedValue))
            /\ NumGreater(parseFloat(trimmedValue), Val(rules.max))
    THEN Some(ValidationError(field,
                 ErrorMsg(field, "max", "Value cannot exceed "
                                           \o IntToStr(Val(rules.max)))))
    ELSE IF rules.custom /\ ~NameCustom(trimmedValue)
    THEN Some(ValidationError(field,
                 ErrorMsg(field, "custom", "Invalid value")))
    ELSE Null

\* validateValue(field, value): Null, or Some(ValidationError)
validateValue(field, value) ==
    IF field \notin DOMAIN validationRules THEN Null
    ELSE checkRules(field, validationRules[field], Trim(value))

\* convertValue(columnId, value): parseInt(value) || 0 for age and grade
convertValue(columnId, value) ==
    IF columnId \in {"age", "grade"}
    THEN IF parseInt(value) = Null THEN 0 ELSE Val(parseInt(value))
    ELSE value

(***************************************************************************)
(* The record generator.  Math.floor(Math.random() * n) is a choice in     *)
(* 0..n-1; the model draws it along three profiles: always the smallest    *)
(* value, always the largest one, or a value that varies with the row.     *)
(***************************************************************************)
Profiles == {"lo", "mix", "hi"}

\* generateStudents(count), the students numbered 1..count
generateStudents(count, profile) ==
    LET majors     == <<"Computer Science", "Mathematics", "Physics",
                        "Chemistry", "Biology", "Economics", "History",
                        "Psychology">>
        statuses   == <<"active", "graduated", "suspended">>
        firstNames == <<"Alex", "Jamie", "Taylor", "Morgan", "Casey", "Riley",
                        "Jordan", "Quinn">>
        lastNames  == <<"Smith", "Johnson", "Williams", "Brown", "Jones",
                        "Garcia", "Miller", "Davis">>
        R(n, row)  == CASE profile = "lo" -> 0
                        [] profile = "hi" -> n - 1
                        [] OTHER -> (row - 1) % n
        Pad(n, w)  == PadStart(IntToStr(n), w)
    IN  [row \in 1..count |->
           [id     |-> "STU" \o Pad(row, 3),
            name   |-> firstNames[R(Len(firstNames), row) + 1] \o " "
                           \o lastNames[R(Len(lastNames), row) + 1],
            age    |-> R(15, row) + 18,
            grade  |-> R(40, row) + 60,
            email  |-> "student" \o IntToStr(row) \o "@university.edu",
            phone  |-> "+1 (555) " \o Pad(R(1000, row), 3) \o "-"
                           \o Pad(R(10000, row), 4),
            major  |-> majors[R(Len(majors), row) + 1],
            enrollmentDate |-> "202" \o IntToStr(R(4, row)) \o "-"
                           \o Pad(R(12, row) + 1, 2) \o "-"
                           \o Pad(R(28, row) + 1, 2),
            graduationDate |-> "202" \o IntToStr(R(4, row) + 4) \o "-"
                           \o Pad(R(12, row) + 1, 2) \o "-"
                           \o Pad(R(28, row) + 1, 2),
            status |-> statuses[R(Len(statuses), row) + 1]]]

(***************************************************************************)
(* Row models of the table instance (useReactTable).  A row is the index   *)
(* of its record in data; the table uses that index as the row id, so the  *)
(* keys of rowSelection are row indices.                                   *)
(***************************************************************************)
\* the columns that have an accessor (all but the selection-marker column)
AccessorColumns == SelectSeq(AllColumns, LAMBDA c : c # "select")

\* the columns whose values are numbers (generateStudents and convertValue
\* keep them so); the values of all other columns are strings
NumberColumns == {"age", "grade"}

\* String(value) of the value of a column
String(columnId, value) ==
    IF columnId \in NumberColumns THEN IntToStr(value) ELSE value

\* the lower-case letter of every upper-case Latin letter
LowerCaseOf ==
    [c \in {CharAt("ABCDEFGHIJKLMNOPQRSTUVWXYZ", j) : j \in 1..26} |->
        CharAt("abcdefghijklmnopqrstuvwxyz",
               CHOOSE j \in 1..26 : CharAt("ABCDEFGHIJKLMNOPQRSTUVWXYZ", j) = c)]

RECURSIVE LowerFrom(_, _)
LowerFrom(s, i) ==
    IF i > Len(s) THEN ""
    ELSE (IF SubSeq(s, i, i) \in DOMAIN LowerCaseOf
          THEN LowerCaseOf[SubSeq(s, i, i)]
          ELSE SubSeq(s, i, i)) \o LowerFrom(s, i + 1)

ToLowerCase(s) == LowerFrom(s, 1)

\* String.prototype.includes(search)
StringIncludes(s, search) ==
    \E i \in 1..(Len(s) + 1) : Substring(s, i, i + Len(search) - 1) = search

\* statusFilterFn(row, columnId, filterValue)
statusFilterFn(row, columnId, filterValue) ==
    IF Len(filterValue) = 0 THEN TRUE
    ELSE Includes(filterValue, row[columnId])

\* the global filter function without the lower-casing of value and search
includesString_CaseSensitive(row, columnId, filterValue) ==
    StringIncludes(String(columnId, row[columnId]), filterValue)

\* the default global filter function of the table (includesString)
includesString(row, columnId, filterValue) ==
    StringIncludes(ToLowerCase(String(columnId, row[columnId])),
                   ToLowerCase(filterValue))

\* does the record pass the column filters and the global filter
PassesFilters(row) ==
    /\ \A i \in 1..Len(columnFilters) :
           columnFilters[i].id = "status" =>
               statusFilterFn(row, "status", columnFilters[i].value)
    /\ \/ globalFilter = ""
       \/ \E c \in 1..Len(AccessorColumns) :
              includesString(row, AccessorColumns[c], globalFilter)

\* table.getFilteredRowModel().rows, as row indices in Record Set order
FilteredRowModel ==
    SelectSeq([i \in 1..Len(data) |-> i], LAMBDA i : PassesFilters(data[i]))

\* the selected rows taken from the filtered row model instead of the core
\* row model: selected rows that a filter hides are left out
SelectedRowModel_FilteredOnly ==
    SelectSeq(FilteredRowModel, LAMBDA i : i \in rowSelection)

\* table.getSelectedRowModel().rows: the selected rows of the core row model
SelectedRowModel ==
    SelectSeq([i \in 1..Len(data) |-> i], LAMBDA i : i \in rowSelection)

\* the characters of the model's strings in the order of their code units
CodeOrder ==
    " '()+-.0123456789@ABCDEFGHIJKLMNOPQRSTUVWXYZ_abcdefghijklmnopqrstuvwxyz"

\* the code unit order of a character (0 for a character not listed)
CharCodes ==
    [c \in {CharAt(CodeOrder, i) : i \in 1..Len(CodeOrder)} |->
        CHOOSE i \in 1..Len(CodeOrder) : CharAt(CodeOrder, i) = c]

CharCode(c) == IF c \in DOMAIN CharCodes THEN CharCodes[c] ELSE 0

\* the first position at which two strings differ, 0 if one is a prefix of
\* the other
FirstDifference(a, b) ==
    IF \A i \in 1..Min(Len(a), Len(b)) : CharAt(a, i) = CharAt(b, i) THEN 0
    ELSE CHOOSE i \in 1..Min(Len(a), Len(b)) :
             /\ CharAt(a, i) # CharAt(b, i)
             /\ \A j \in 1..(i - 1) : CharAt(a, j) = CharAt(b, j)

\* a < b, a === b, a > b of two strings as -1, 0, 1
CompareStrings(a, b) ==
    IF a = b THEN 0
    ELSE IF FirstDifference(a, b) = 0
    THEN (IF Len(a) < Len(b) THEN 0 - 1 ELSE 1)
    ELSE IF CharCode(CharAt(a, FirstDifference(a, b)))
                < CharCode(CharAt(b, FirstDifference(a, b)))
    THEN 0 - 1 ELSE 1

\* column.getAutoSortingFn(): the table picks the sorting function of a
\* column by the values of the filtered rows after the tenth: "alphanumeric"
\* if one of them is a string with a digit, "text" if one is a string,
\* "basic" otherwise and whenever there are no more than ten filtered rows
AutoSortingFn(columnId) ==
    IF \/ columnId \in NumberColumns
       \/ Len(data) <= 10
       \/ Len(FilteredRowModel) <= 10
    THEN "basic"
    ELSE IF \E n \in 11..Len(FilteredRowModel) :
                \E d \in Digits :
                    ContainsChar(data[FilteredRowModel[n]][columnId], d)
    THEN "alphanumeric"
    ELSE "text"

\* the sorting functions basic (a === b ? 0 : a > b ? 1 : -1, strings by
\* code units) and text (lower-cased strings); the function alphanumeric
\* is chosen in no specification of this module
CompareBy(sortingFn, columnId, a, b) ==
    CASE sortingFn = "basic" /\ columnId \in NumberColumns ->
             (IF a < b THEN 0 - 1 ELSE IF a > b THEN 1 ELSE 0)
      [] sortingFn = "basic" /\ columnId \notin NumberColumns ->
             CompareStrings(a, b)
      [] sortingFn = "text" ->
             CompareStrings(ToLowerCase(a), ToLowerCase(b))

\* column.getSortingFn()(rowA, rowB, columnId) on the values of two rows
CompareValues(columnId, a, b) ==
    CompareBy(AutoSortingFn(columnId), columnId, a, b)

\* sortInt of the rows i and j under a sort rule, before the direction
KeyCompare(i, j, rule) ==
    CompareValues(rule.id, data[i][rule.id], data[j][rule.id])

\* sortInt of a sort rule: reversed if the rule is descending
Directed(desc, sortInt) == IF desc THEN 0 - sortInt ELSE sortInt

\* the comparator with the row index reversed under a descending last rule
\* (a descending order made by reversing the ascending one)
RECURSIVE CompareRows_ReverseTies(_, _, _, _)
CompareRows_ReverseTies(i, j, rules, k) ==
    IF k > Len(rules)
    THEN (IF rules[Len(rules)].desc THEN j - i ELSE i - j)
    ELSE IF KeyCompare(i, j, rules[k]) = 0
    THEN CompareRows_ReverseTies(i, j, rules, k + 1)
    ELSE Directed(rules[k].desc, KeyCompare(i, j, rules[k]))

RECURSIVE CompareRows(_, _, _, _)
\* the comparator of the sorted row model for the rows i and j, from the
\* k-th sort rule on: the first rule whose sorting function tells the rows
\* apart decides, reversed if it is descending; the row index decides
\* between rows that no rule tells apart
CompareRows(i, j, rules, k) ==
    IF k > Len(rules) THEN i - j
    ELSE IF KeyCompare(i, j, rules[k]) = 0
    THEN CompareRows(i, j, rules, k + 1)
    ELSE Directed(rules[k].desc, KeyCompare(i, j, rules[k]))

\* Array.prototype.sort of the rows with a comparator that never returns 0
\* for two different rows: the row at position k has k - 1 rows before it
SortRows(rows, rules) ==
    LET before == [i \in {rows[n] : n \in 1..Len(rows)} |->
                      Cardinality({j \in {rows[n] : n \in 1..Len(rows)} :
                                      CompareRows(j, i, rules, 1) < 0})]
    IN  [k \in 1..Len(rows) |->
            CHOOSE i \in DOMAIN before : before[i] = k - 1]

\* table.getSortedRowModel().rows
SortedRowModel ==
    IF Len(sorting) = 0 THEN FilteredRowModel
    ELSE SortRows(FilteredRowModel, sorting)

\* table.getPageCount()
PageCount ==
    (Len(FilteredRowModel) + pagination.pageSize - 1) \div pagination.pageSize

\* the rows of the page pageIndex of the rows
PageOf(rows, pageIndex, pageSize) ==
    SubSeq(rows, Min(pageIndex * pageSize, Len(rows)) + 1,
           Min((pageIndex + 1) * pageSize, Len(rows)))

\* table.getRowModel().rows: the rows of the current page, in display order
RowModel == PageOf(SortedRowModel, pagination.pageIndex, pagination.pageSize)

\* the set of the elements of a sequence
SetOf(list) == {list[k] : k \in 1..Len(list)}

\* the set of the rows that are rendered: every filtered row if one page
\* holds them all, the rows of the current page otherwise
RenderedRows ==
    IF Len(data) <= pagination.pageSize
    THEN SetOf(FilteredRowModel)
    ELSE SetOf(RowModel)

\* the effect that focuses the first cell has yet to run for the last
\* render: there are rows and no cell is focused
FocusEffectPending == focusedCell = Null /\ Len(RowModel) > 0

\* an effect has yet to run: no event is handled before it has
EffectPending == statusEffectPending \/ FocusEffectPending

\* the index of the record with the given identifier, 0 if there is none
RowIndexOf(id) ==
    LET found == {i \in 1..Len(data) : data[i].id = id}
    IN  IF found = {} THEN 0 ELSE CHOOSE i \in found : \A j \in found : i <= j

\* is the cell that is being edited rendered (its input element exists)
EditInputRendered ==
    /\ editingCell # Null
    /\ RowIndexOf(Val(editingCell).rowId) \in RenderedRows

(***************************************************************************)
(* The hook useTableSettings.  A JSON value of the model is null or an     *)
(* object with the optional members columnVisibility (pairs [id, visible]),*)
(* pageSize and sorting (rules [id, desc]).                                *)
(***************************************************************************)
JsonObject(visibility, size, rules) ==
    [kind |-> "object", columnVisibility |-> visibility,
     pageSize |-> size, sorting |-> rules]

\* the settings state before the hook is mounted
NotMounted ==
    [kind |-> "unmounted", columnVisibility |-> Null, pageSize |-> Null,
     sorting |-> Null]

\* the default settings of the hook
DefaultSettings == JsonObject(Some(<<>>), Some(10), Some(<<>>))

\* the strings of a list joined by commas
RECURSIVE JoinFrom(_, _)
JoinFrom(parts, k) ==
    IF k > Len(parts) THEN ""
    ELSE IF k = Len(parts) THEN parts[k]
    ELSE parts[k] \o "," \o JoinFrom(parts, k + 1)

JsonBoolean(b) == IF b THEN "true" ELSE "false"

\* JSON.stringify of the members of an object that are present
JsonMembers(value) ==
    (IF value.columnVisibility = Null THEN <<>>
     ELSE <<"\"columnVisibility\":{"
                \o JoinFrom([k \in 1..Len(Val(value.columnVisibility)) |->
                                "\"" \o Val(value.columnVisibility)[k].id
                                    \o "\":"
                                    \o JsonBoolean(
                                           Val(value.columnVisibility)[k].visible)],
                            1)
                \o "}">>)
    \o (IF value.pageSize = Null THEN <<>>
        ELSE <<"\"pageSize\":" \o IntToStr(Val(value.pageSize))>>)
    \o (IF value.sorting = Null THEN <<>>
        ELSE <<"\"sorting\":["
                   \o JoinFrom([k \in 1..Len(Val(value.sorting)) |->
                                   "{\"id\":\"" \o Val(value.sorting)[k].id
                                       \o "\",\"desc\":"
                                       \o JsonBoolean(Val(value.sorting)[k].desc)
                                       \o "}"],
                               1)
                   \o "]">>)

\* JSON.stringify(value)
JSONStringify(value) ==
    IF value.kind = "null" THEN "null"
    ELSE "{" \o JoinFrom(JsonMembers(value), 1) \o "}"

\* the page sizes, column visibilities and sort rules of the settings that
\* setSettings is called with
SettingsInputs ==
    {JsonObject(Some(visibility), Some(size), Some(rules)) :
         visibility \in {<<>>, <<[id |-> "email", visible |-> FALSE]>>},
         size \in {10, 20, 30, 40, 50},
         rules \in {<<>>, <<[id |-> "age", desc |-> TRUE]>>}}

\* the JSON values of the model: the settings above, null, the empty
\* object and an object whose page size is 0
JsonValues ==
    SettingsInputs
        \cup {DefaultSettings, JsonObject(Null, Null, Null),
              JsonObject(Null, Some(0), Null),
              [kind |-> "null", columnVisibility |-> Null,
               pageSize |-> Null, sorting |-> Null]}

\* JSON.parse(text): the JSON value that the text denotes, a SyntaxError
\* for a text that denotes none.  The texts of the model denote a value of
\* JsonValues in the form JSON.stringify writes, or are not JSON.
JSONParse(text) ==
    IF \E value \in JsonValues : JSONStringify(value) = text
    THEN CHOOSE value \in JsonValues : JSONStringify(value) = text
    ELSE [kind |-> "SyntaxError", columnVisibility |-> Null,
          pageSize |-> Null, sorting |-> Null]

\* the initializer of useState: saved ? JSON.parse(saved) : defaults
loadSettings(saved) ==
    IF saved = Null \/ Val(saved) = "" THEN DefaultSettings
    ELSE JSONParse(Val(saved))

\* the texts found in the storage when the hook is mounted
StoredTexts ==
    {"", "{", "not json", "{pageSize:10}", "null", "{}", "{\"pageSize\":0}",
     JSONStringify(DefaultSettings),
     JSONStringify(JsonObject(Some(<<[id |-> "email", visible |-> FALSE]>>),
                              Some(20),
                              Some(<<[id |-> "age", desc |-> TRUE]>>)))}

\* the first render of a component that uses the hook
mountSettings ==
    /\ settings = NotMounted
    /\ settings' = loadSettings(localStorage)
    /\ UNCHANGED <<data, sorting, columnFilters, rowSelection, globalFilter,
                   editingCell, editValue, selectedStatus, validationErrors,
                   focusedCell, isKeyboardMode, pagination,
                   statusEffectPending, commits, localStorage, output>>

\* is the settings state that of a mounted hook
IsMounted == settings.kind \in {"object", "null"}

\* useEffect(..., [settings]): localStorage.setItem('tableSettings', ...)
saveSettingsEffect ==
    /\ IsMounted
    /\ localStorage # Some(JSONStringify(settings))
    /\ localStorage' = Some(JSONStringify(settings))
    /\ UNCHANGED <<data, sorting, columnFilters, rowSelection, globalFilter,
                   editingCell, editValue, selectedStatus, validationErrors,
                   focusedCell, isKeyboardMode, pagination,
                   statusEffectPending, commits, settings, output>>

\* setSettings(value), once the effect of the last render has run
setSettings(value) ==
    /\ IsMounted
    /\ localStorage = Some(JSONStringify(settings))
    /\ settings' = value
    /\ UNCHANGED <<data, sorting, columnFilters, rowSelection, globalFilter,
                   editingCell, editValue, selectedStatus, validationErrors,
                   focusedCell, isKeyboardMode, pagination,
                   statusEffectPending, commits, localStorage, output>>

\* table.resetPageIndex(), which the table queues whenever the rows before
\* pagination are computed anew (autoResetPageIndex): new data, new column
\* filters, new global filter, new sorting
resetPageIndex(p) == [p EXCEPT !.pageIndex = 0]

(***************************************************************************)
(* Initial state: the component after its first render and mount effects.  *)
(***************************************************************************)
InitTable(count) ==
    /\ data \in {generateStudents(count, p) : p \in Profiles}
    /\ sorting = <<>>
    /\ columnFilters = <<>>
    /\ rowSelection = {}
    /\ globalFilter = ""
    /\ editingCell = Null
    /\ editValue = ""
    /\ selectedStatus = <<"active", "graduated", "suspended">>
    /\ validationErrors = <<>>
    /\ focusedCell = Some([rowId |-> data[1].id, columnId |-> "name"])
    /\ isKeyboardMode = FALSE
    /\ pagination = [pageIndex |-> 0, pageSize |-> 10]
    /\ statusEffectPending = FALSE
    /\ commits = 0
    /\ output = Null

\* the table of `count` students, and the hook mounted on an empty storage
\* with its effect run
InitWith(count) ==
    /\ InitTable(count)
    /\ settings = DefaultSettings
    /\ localStorage = Some(JSONStringify(DefaultSettings))

Init == InitWith(NumStudents)

(***************************************************************************)
(* Inline editing.                                                         *)
(***************************************************************************)
\* clearValidationErrors(field)
clearValidationErrors(errors, field) ==
    SelectSeq(errors, LAMBDA e : e.field # field)

\* handleDoubleClick without the return for the select and id columns
handleDoubleClick_AnyColumn(i, columnId) ==
    /\ ~EffectPending
    /\ i \in RenderedRows
    /\ columnId # "select"
    /\ editingCell # Some([rowId |-> data[i].id, columnId |-> columnId])
    /\ editingCell' = Some([rowId |-> data[i].id, columnId |-> columnId])
    /\ editValue' = String(columnId, data[i][columnId])
    /\ validationErrors' = clearValidationErrors(validationErrors, columnId)
    /\ UNCHANGED <<data, sorting, columnFilters, rowSelection, globalFilter,
                   selectedStatus, focusedCell, isKeyboardMode, pagination,
                   statusEffectPending, commits, hookVars, output>>

\* handleDoubleClick without the call of clearValidationErrors
handleDoubleClick_KeepErrors(i, columnId) ==
    /\ ~EffectPending
    /\ i \in RenderedRows
    /\ columnId \notin {"select", "id"}
    /\ editingCell # Some([rowId |-> data[i].id, columnId |-> columnId])
    /\ editingCell' = Some([rowId |-> data[i].id, columnId |-> columnId])
    /\ editValue' = String(columnId, data[i][columnId])
    /\ UNCHANGED <<data, sorting, columnFilters, rowSelection, globalFilter,
                   selectedStatus, validationErrors, focusedCell,
                   isKeyboardMode, pagination, statusEffectPending, commits,
                   hookVars, output>>

\* handleDoubleClick(rowId, columnId, value) on a rendered cell
handleDoubleClick(i, columnId) ==
    /\ ~EffectPending
    /\ i \in RenderedRows
    /\ columnId \notin {"select", "id"}
    /\ editingCell # Some([rowId |-> data[i].id, columnId |-> columnId])
    /\ editingCell' = Some([rowId |-> data[i].id, columnId |-> columnId])
    /\ editValue' = String(columnId, data[i][columnId])
    /\ validationErrors' = clearValidationErrors(validationErrors, columnId)
    /\ UNCHANGED <<data, sorting, columnFilters, rowSelection, globalFilter,
                   selectedStatus, focusedCell, isKeyboardMode, pagination,
                   statusEffectPending, commits, hookVars, output>>

\* onChange of the edit input: the user stages a raw string
stageEditValue(raw) ==
    /\ ~EffectPending
    /\ EditInputRendered
    /\ editValue' = raw
    /\ validationErrors' =
           clearValidationErrors(validationErrors, Val(editingCell).columnId)
    /\ UNCHANGED <<data, sorting, columnFilters, rowSelection, globalFilter,
                   editingCell, selectedStatus, focusedCell, isKeyboardMode,
                   pagination, statusEffectPending, commits, hookVars, output>>

\* saveEditRejected without the return after setValidationErrors: the
\* handler goes on to write the record and to close the editor
saveEditRejected_NoReturn ==
    /\ ~EffectPending
    /\ EditInputRendered
    /\ commits < MaxCommits
    /\ validateValue(Val(editingCell).columnId, editValue) # Null
    /\ data' = [i \in 1..Len(data) |->
                   IF data[i].id = Val(editingCell).rowId
                   THEN [data[i] EXCEPT ![Val(editingCell).columnId] =
                            convertValue(Val(editingCell).columnId, editValue)]
                   ELSE data[i]]
    /\ editingCell' = Null
    /\ editValue' = ""
    /\ validationErrors' =
           clearValidationErrors(validationErrors, Val(editingCell).columnId)
    /\ focusedCell' = editingCell
    /\ commits' = commits + 1
    /\ pagination' = resetPageIndex(pagination)
    /\ UNCHANGED <<sorting, columnFilters, rowSelection, globalFilter,
                   selectedStatus, isKeyboardMode, statusEffectPending,
                   hookVars, output>>

\* saveEdit when validateValue returns an error
saveEditRejected ==
    /\ ~EffectPending
    /\ EditInputRendered
    /\ commits < MaxCommits
    /\ LET columnId == Val(editingCell).columnId
           error    == validateValue(columnId, editValue)
       IN  /\ error # Null
           /\ validationErrors' =
                  Append(clearValidationErrors(validationErrors, columnId),
                         Val(error))
    /\ commits' = commits + 1
    /\ UNCHANGED <<data, sorting, columnFilters, rowSelection, globalFilter,
                   editingCell, editValue, selectedStatus, focusedCell,
                   isKeyboardMode, pagination, statusEffectPending, hookVars, output>>

\* setData(prev => prev.map(...)) of saveEdit
writeCell(rows, rowId, columnId, value) ==
    [i \in 1..Len(rows) |->
        IF rows[i].id = rowId
        THEN [rows[i] EXCEPT ![columnId] = convertValue(columnId, value)]
        ELSE rows[i]]

\* saveEdit when validateValue returns null, without setFocusedCell
saveEditAccepted_KeepFocus ==
    /\ ~EffectPending
    /\ EditInputRendered
    /\ commits < MaxCommits
    /\ LET rowId    == Val(editingCell).rowId
           columnId == Val(editingCell).columnId
       IN  /\ validateValue(columnId, editValue) = Null
           /\ data' = writeCell(data, rowId, columnId, editValue)
           /\ editingCell' = Null
           /\ editValue' = ""
           /\ validationErrors' =
                  clearValidationErrors(validationErrors, columnId)
    /\ commits' = commits + 1
    /\ pagination' = resetPageIndex(pagination)
    /\ UNCHANGED <<sorting, columnFilters, rowSelection, globalFilter,
                   selectedStatus, focusedCell, isKeyboardMode,
                   statusEffectPending, hookVars, output>>

\* saveEdit when validateValue returns null
saveEditAccepted ==
    /\ ~EffectPending
    /\ EditInputRendered
    /\ commits < MaxCommits
    /\ LET rowId    == Val(editingCell).rowId
           columnId == Val(editingCell).columnId
       IN  /\ validateValue(columnId, editValue) = Null
           /\ data' = writeCell(data, rowId, columnId, editValue)
           /\ editingCell' = Null
           /\ editValue' = ""
           /\ validationErrors' =
                  clearValidationErrors(validationErrors, columnId)
           /\ focusedCell' = Some([rowId |-> rowId, columnId |-> columnId])
    /\ commits' = commits + 1
    /\ pagination' = resetPageIndex(pagination)
    /\ UNCHANGED <<sorting, columnFilters, rowSelection, globalFilter,
                   selectedStatus, isKeyboardMode, statusEffectPending,
                   hookVars, output>>

\* saveEdit (onBlur and Enter of the edit input)
saveEdit == saveEditRejected \/ saveEditAccepted

\* cancelEdit without setValidationErrors([])
cancelEdit_KeepErrors ==
    /\ ~EffectPending
    /\ editingCell # Null
    /\ EditInputRendered \/ isKeyboardMode
    /\ editingCell' = Null
    /\ editValue' = ""
    /\ UNCHANGED <<data, sorting, columnFilters, rowSelection, globalFilter,
                   selectedStatus, validationErrors, focusedCell,
                   isKeyboardMode, pagination, statusEffectPending, commits,
                   hookVars, output>>

\* cancelEdit (Escape in the edit input, or in the grid in keyboard mode)
cancelEdit ==
    /\ ~EffectPending
    /\ editingCell # Null
    /\ EditInputRendered \/ isKeyboardMode
    /\ editingCell' = Null
    /\ editValue' = ""
    /\ validationErrors' = <<>>
    /\ UNCHANGED <<data, sorting, columnFilters, rowSelection, globalFilter,
                   selectedStatus, focusedCell, isKeyboardMode, pagination,
                   statusEffectPending, commits, hookVars, output>>

\* the raw strings of EditInputs with free text for the major and the
\* status, as if their editors were text inputs
EditInputs_FreeText(columnId) ==
    CASE columnId = "name"   -> {"", "Alex", "Al Smith"}
      [] columnId = "age"    -> {"", "abc", "15", "16", "101", "1e2"}
      [] columnId = "grade"  -> {"abc", "-1", "0", "101", "20.5", "0x1A"}
      [] columnId = "email"  -> {"a@b", "a@b.co"}
      [] columnId = "phone"  -> {"555-0000", "555-000-1111"}
      [] columnId = "major"  -> {"art", " Art"}
      [] columnId = "status" -> {"Active", " graduated "}
      [] OTHER               -> {"", "STU001"}

\* the raw strings the user stages in the edit input of a column; the
\* editors of major and status are <select> elements, which stage the
\* value of one of their options: "" or an allowed value
EditInputs(columnId) ==
    CASE columnId = "name"   -> {"", "Alex", "Al Smith"}
      [] columnId = "age"    -> {"", "abc", "15", "16", "101", "1e2"}
      [] columnId = "grade"  -> {"abc", "-1", "0", "101", "20.5", "0x1A"}
      [] columnId = "email"  -> {"a@b", "a@b.co"}
      [] columnId = "phone"  -> {"555-0000", "555-000-1111"}
      [] columnId = "major"  -> {"", "Art"}
      [] columnId = "status" -> {"", "graduated"}
      [] OTHER               -> {"", "STU001"}

NextEdit ==
    \/ \E i \in 1..Len(data), c \in 1..Len(AllColumns) :
           handleDoubleClick(i, AllColumns[c])
    \/ \E c \in 1..Len(AllColumns) :
           \E raw \in EditInputs(AllColumns[c]) :
               editingCell # Null /\ Val(editingCell).columnId = AllColumns[c]
                   /\ stageEditValue(raw)
    \/ saveEditRejected
    \/ saveEditAccepted
    \/ cancelEdit

SpecEdit == Init /\ [][NextEdit]_vars

(***************************************************************************)
(* Sorting.                                                                *)
(***************************************************************************)
\* prev.findIndex(sort => sort.id === columnId), 0 if there is none
findSortIndex(prev, columnId) ==
    LET found == {i \in 1..Len(prev) : prev[i].id = columnId}
    IN  IF found = {} THEN 0 ELSE CHOOSE i \in found : \A j \in found : i <= j

\* toggleSort as a three-state cycle: a descending rule is removed
toggleSort_ThreeState(prev, columnId) ==
    IF findSortIndex(prev, columnId) = 0
    THEN Append(prev, [id |-> columnId, desc |-> FALSE])
    ELSE IF prev[findSortIndex(prev, columnId)].desc
    THEN SelectSeq(prev, LAMBDA sort : sort.id # columnId)
    ELSE [prev EXCEPT ![findSortIndex(prev, columnId)].desc = TRUE]

\* toggleSort that puts a new rule first instead of last
toggleSort_Prepend(prev, columnId) ==
    IF findSortIndex(prev, columnId) > 0
    THEN [prev EXCEPT ![findSortIndex(prev, columnId)].desc = ~@]
    ELSE <<[id |-> columnId, desc |-> FALSE]>> \o prev

\* toggleSort without the search for an existing rule of the field
toggleSort_AlwaysAppend(prev, columnId) ==
    Append(prev, [id |-> columnId,
                  desc |-> IF findSortIndex(prev, columnId) > 0
                           THEN ~prev[findSortIndex(prev, columnId)].desc
                           ELSE FALSE])

\* the updater that handleColumnSort passes to setSorting
toggleSort(prev, columnId) ==
    IF findSortIndex(prev, columnId) > 0
    THEN [prev EXCEPT ![findSortIndex(prev, columnId)].desc = ~@]
    ELSE Append(prev, [id |-> columnId, desc |-> FALSE])

\* the columns whose header can be clicked to sort (canSort)
SortableColumns == SelectSeq(AllColumns, LAMBDA c : c \notin {"id", "select"})

\* handleColumnSort that also sorts the records themselves by the new rules
handleColumnSort_SortsData(columnId) ==
    /\ ~EffectPending
    /\ Includes(SortableColumns, columnId)
    /\ findSortIndex(sorting, columnId) = 0 => Len(sorting) < MaxSortRules
    /\ sorting' = toggleSort(sorting, columnId)
    /\ data' = [k \in 1..Len(data) |->
                   data[SortRows([n \in 1..Len(data) |-> n],
                                 toggleSort(sorting, columnId))[k]]]
    /\ pagination' = resetPageIndex(pagination)
    /\ UNCHANGED <<columnFilters, rowSelection, globalFilter,
                   editingCell, editValue, selectedStatus, validationErrors,
                   focusedCell, isKeyboardMode, statusEffectPending, commits,
                   hookVars, output>>

\* handleColumnSort(columnId): a click on a sortable column header
handleColumnSort(columnId) ==
    /\ ~EffectPending
    /\ Includes(SortableColumns, columnId)
    /\ findSortIndex(sorting, columnId) = 0 => Len(sorting) < MaxSortRules
    /\ sorting' = toggleSort(sorting, columnId)
    /\ pagination' = resetPageIndex(pagination)
    /\ UNCHANGED <<data, columnFilters, rowSelection, globalFilter,
                   editingCell, editValue, selectedStatus, validationErrors,
                   focusedCell, isKeyboardMode, statusEffectPending, commits,
                   hookVars, output>>

\* clearAllSorting (the button is disabled while there is no sort rule)
clearAllSorting ==
    /\ ~EffectPending
    /\ Len(sorting) > 0
    /\ sorting' = <<>>
    /\ pagination' = resetPageIndex(pagination)
    /\ UNCHANGED <<data, columnFilters, rowSelection, globalFilter,
                   editingCell, editValue, selectedStatus, validationErrors,
                   focusedCell, isKeyboardMode, statusEffectPending, commits,
                   hookVars, output>>

\* the updater that removeColumnSort passes to setSorting
removeSort(prev, columnId) == SelectSeq(prev, LAMBDA sort : sort.id # columnId)

\* removeColumnSort(columnId, e): the remove button of a sorting tag
removeColumnSort(columnId) ==
    /\ ~EffectPending
    /\ findSortIndex(sorting, columnId) > 0
    /\ sorting' = removeSort(sorting, columnId)
    /\ pagination' = resetPageIndex(pagination)
    /\ UNCHANGED <<data, columnFilters, rowSelection, globalFilter,
                   editingCell, editValue, selectedStatus, validationErrors,
                   focusedCell, isKeyboardMode, statusEffectPending, commits,
                   hookVars, output>>

NextSort ==
    \/ \E c \in 1..Len(AllColumns) : handleColumnSort(AllColumns[c])
    \/ clearAllSorting
    \/ \E c \in 1..Len(AllColumns) : removeColumnSort(AllColumns[c])

SpecSort == Init /\ [][NextSort]_vars

(***************************************************************************)
(* Status filter, global filter, row selection and deletion.               *)
(***************************************************************************)
AllStatuses == <<"active", "graduated", "suspended">>

\* the updater without the test of prev.length === 1: the last selected
\* status can be removed
toggleStatus_RemoveLast(prev, status) ==
    IF Includes(prev, status)
    THEN SelectSeq(prev, LAMBDA s : s # status)
    ELSE Append(prev, status)

\* the updater that handleStatusFilterChange passes to setSelectedStatus
toggleStatus(prev, status) ==
    IF Includes(prev, status)
    THEN IF Len(prev) = 1 THEN prev
         ELSE SelectSeq(prev, LAMBDA s : s # status)
    ELSE Append(prev, status)

\* handleStatusFilterChange(status): a click on a status button.  The
\* effect on selectedStatus runs after the render that follows.
handleStatusFilterChange(status) ==
    /\ ~EffectPending
    /\ selectedStatus' = toggleStatus(selectedStatus, status)
    /\ statusEffectPending' = (selectedStatus' # selectedStatus)
    /\ UNCHANGED <<data, sorting, columnFilters, rowSelection, globalFilter,
                   editingCell, editValue, validationErrors, focusedCell,
                   isKeyboardMode, pagination, commits, hookVars, output>>

\* selectAllStatuses (the button is shown while fewer than 3 are selected)
selectAllStatuses ==
    /\ ~EffectPending
    /\ Len(selectedStatus) < 3
    /\ selectedStatus' = AllStatuses
    /\ statusEffectPending' = TRUE
    /\ UNCHANGED <<data, sorting, columnFilters, rowSelection, globalFilter,
                   editingCell, editValue, validationErrors, focusedCell,
                   isKeyboardMode, pagination, commits, hookVars, output>>

\* clearAllFilters (disabled while all statuses are selected and the search
\* text is empty)
clearAllFilters ==
    /\ ~EffectPending
    /\ ~(Len(selectedStatus) = 3 /\ globalFilter = "")
    /\ selectedStatus' = AllStatuses
    /\ columnFilters' = <<>>
    /\ globalFilter' = ""
    /\ validationErrors' = <<>>
    /\ statusEffectPending' = TRUE
    /\ pagination' = resetPageIndex(pagination)
    /\ UNCHANGED <<data, sorting, rowSelection, editingCell, editValue,
                   focusedCell, isKeyboardMode, commits, hookVars, output>>

\* the effect without the test of selectedStatus.length === 3: a status
\* filter is set for every non-empty selection
applyStatusFilter_NoAllTest(prev, selected) ==
    LET otherFilters == SelectSeq(prev, LAMBDA filter : filter.id # "status")
    IN  IF Len(selected) > 0
        THEN Append(otherFilters, [id |-> "status", value |-> selected])
        ELSE otherFilters

\* the new columnFilters of the effect on selectedStatus
applyStatusFilter(prev, selected) ==
    LET otherFilters == SelectSeq(prev, LAMBDA filter : filter.id # "status")
    IN  IF Len(selected) = 3 THEN otherFilters
        ELSE IF Len(selected) > 0
        THEN Append(otherFilters, [id |-> "status", value |-> selected])
        ELSE otherFilters

\* useEffect(..., [selectedStatus]): runs after a render that changed
\* selectedStatus, before the next event is handled
statusFilterEffect ==
    /\ statusEffectPending
    /\ columnFilters' = applyStatusFilter(columnFilters, selectedStatus)
    /\ statusEffectPending' = FALSE
    /\ pagination' = resetPageIndex(pagination)
    /\ UNCHANGED <<data, sorting, rowSelection, globalFilter, editingCell,
                   editValue, selectedStatus, validationErrors, focusedCell,
                   isKeyboardMode, commits, hookVars, output>>

\* the search texts the user types
GlobalFilterInputs == {"", "STU001", "ACTIVE", "19", "202"}

\* onChange of the search box: setGlobalFilter(e.target.value)
setGlobalFilter(text) ==
    /\ ~EffectPending
    /\ globalFilter' = text
    /\ pagination' = resetPageIndex(pagination)
    /\ UNCHANGED <<data, sorting, columnFilters, rowSelection, editingCell,
                   editValue, selectedStatus, validationErrors, focusedCell,
                   isKeyboardMode, statusEffectPending, commits, hookVars, output>>

\* row.getToggleSelectedHandler() of the checkbox of a rendered row
toggleRowSelected(i) ==
    /\ ~EffectPending
    /\ i \in RenderedRows
    /\ rowSelection' = IF i \in rowSelection THEN rowSelection \ {i}
                       ELSE rowSelection \cup {i}
    /\ UNCHANGED <<data, sorting, columnFilters, globalFilter, editingCell,
                   editValue, selectedStatus, validationErrors, focusedCell,
                   isKeyboardMode, pagination, statusEffectPending, commits,
                   hookVars, output>>

\* table.getIsAllRowsSelected()
IsAllRowsSelected ==
    /\ Len(FilteredRowModel) > 0
    /\ rowSelection # {}
    /\ \A k \in 1..Len(FilteredRowModel) : FilteredRowModel[k] \in rowSelection

\* table.getToggleAllRowsSelectedHandler() of the header checkbox
toggleAllRowsSelected ==
    /\ ~EffectPending
    /\ rowSelection' =
           IF ~IsAllRowsSelected
           THEN rowSelection \cup SetOf(FilteredRowModel)
           ELSE rowSelection \ SetOf(FilteredRowModel)
    /\ UNCHANGED <<data, sorting, columnFilters, globalFilter, editingCell,
                   editValue, selectedStatus, validationErrors, focusedCell,
                   isKeyboardMode, pagination, statusEffectPending, commits,
                   hookVars, output>>

\* the identifiers of the selected rows (selectedIds of deleteSelectedRows)
SelectedIds == {data[SelectedRowModel[k]].id : k \in 1..Len(SelectedRowModel)}

\* setData(prev => prev.filter(item => !selectedIds.includes(item.id)))
removeRecords(prev, selectedIds) ==
    SelectSeq(prev, LAMBDA item : item.id \notin selectedIds)

\* window.confirm(`Delete ${selectedIds.length} selected row(s)?`) and the
\* user's answer
Confirm(count, answer) ==
    Some([kind |-> "confirm",
          text |-> "Delete " \o IntToStr(count) \o " selected row(s)?",
          answer |-> answer])

\* deleteConfirmed without setRowSelection({})
deleteConfirmed_KeepSelection ==
    /\ ~EffectPending
    /\ SelectedIds # {}
    /\ output' = Confirm(Cardinality(SelectedIds), TRUE)
    /\ data' = removeRecords(data, SelectedIds)
    /\ pagination' = resetPageIndex(pagination)
    /\ UNCHANGED <<sorting, columnFilters, rowSelection, globalFilter,
                   editingCell, editValue, selectedStatus, validationErrors,
                   focusedCell, isKeyboardMode, statusEffectPending, commits,
                   hookVars>>

\* deleteSelectedRows, the user confirms
deleteConfirmed ==
    /\ ~EffectPending
    /\ SelectedIds # {}
    /\ output' = Confirm(Cardinality(SelectedIds), TRUE)
    /\ data' = removeRecords(data, SelectedIds)
    /\ rowSelection' = {}
    /\ pagination' = resetPageIndex(pagination)
    /\ UNCHANGED <<sorting, columnFilters, globalFilter, editingCell,
                   editValue, selectedStatus, validationErrors, focusedCell,
                   isKeyboardMode, statusEffectPending, commits, hookVars>>

\* deleteSelectedRows with nothing selected: the alert, and nothing else
deleteNothingSelected ==
    /\ ~EffectPending
    /\ SelectedIds = {}
    /\ output' = Some([kind |-> "alert", text |-> "Please select rows to delete"])
    /\ UNCHANGED <<data, sorting, columnFilters, rowSelection, globalFilter,
                   editingCell, editValue, selectedStatus, validationErrors,
                   focusedCell, isKeyboardMode, pagination,
                   statusEffectPending, commits, hookVars>>

\* deleteDeclined with setRowSelection({}) placed after the if statement
deleteDeclined_ClearSelection ==
    /\ ~EffectPending
    /\ SelectedIds # {}
    /\ output' = Confirm(Cardinality(SelectedIds), FALSE)
    /\ rowSelection' = {}
    /\ UNCHANGED <<data, sorting, columnFilters, globalFilter, editingCell,
                   editValue, selectedStatus, validationErrors, focusedCell,
                   isKeyboardMode, pagination, statusEffectPending, commits,
                   hookVars>>

\* deleteSelectedRows, the user declines the confirmation
deleteDeclined ==
    /\ ~EffectPending
    /\ SelectedIds # {}
    /\ output' = Confirm(Cardinality(SelectedIds), FALSE)
    /\ UNCHANGED <<data, sorting, columnFilters, rowSelection, globalFilter,
                   editingCell, editValue, selectedStatus, validationErrors,
                   focusedCell, isKeyboardMode, pagination,
                   statusEffectPending, commits, hookVars>>

\* deleteSelectedRows (the Delete Selected button)
deleteSelectedRows ==
    deleteConfirmed \/ deleteNothingSelected \/ deleteDeclined

\* the columns that are double-clicked and the values that are typed while
\* rows are selected, filtered and deleted
TableEditColumns == {"id", "status"}

TableEditInputs(columnId) ==
    CASE columnId = "status" -> {"graduated", ""}
      [] OTHER               -> {"STU001"}

NextTable ==
    \/ \E s \in 1..Len(AllStatuses) : handleStatusFilterChange(AllStatuses[s])
    \/ selectAllStatuses
    \/ clearAllFilters
    \/ statusFilterEffect
    \/ \E i \in 1..Len(data) : toggleRowSelected(i)
    \/ toggleAllRowsSelected
    \/ deleteConfirmed
    \/ \E i \in 1..Len(data), columnId \in TableEditColumns :
           handleDoubleClick(i, columnId)
    \/ \E columnId \in TableEditColumns :
         \E raw \in TableEditInputs(columnId) :
           /\ editingCell # Null
           /\ Val(editingCell).columnId = columnId
           /\ stageEditValue(raw)
    \/ saveEditRejected
    \/ saveEditAccepted
    \/ cancelEdit

SpecTable == Init /\ [][NextTable]_vars

\* the filter controls of the toolbar: status buttons, search box
NextFilter ==
    \/ \E s \in 1..Len(AllStatuses) : handleStatusFilterChange(AllStatuses[s])
    \/ selectAllStatuses
    \/ clearAllFilters
    \/ statusFilterEffect
    \/ \E text \in GlobalFilterInputs : setGlobalFilter(text)

SpecFilter == Init /\ [][NextFilter]_vars

\* the columns sorted by in SpecOrder and the ages staged in it
OrderColumns == {"age", "name"}

\* sorting together with what changes the sorted rows: an edit of an age
\* and the status filter
NextOrder ==
    \/ \E columnId \in OrderColumns : handleColumnSort(columnId)
    \/ clearAllSorting
    \/ \E columnId \in OrderColumns : removeColumnSort(columnId)
    \/ \E i \in 1..Len(data) : handleDoubleClick(i, "age")
    \/ \E raw \in {"30", "15"} : stageEditValue(raw)
    \/ saveEdit
    \/ cancelEdit
    \/ \E s \in 1..Len(AllStatuses) : handleStatusFilterChange(AllStatuses[s])
    \/ statusFilterEffect

SpecOrder == Init /\ [][NextOrder]_vars

(***************************************************************************)
(* Pagination.                                                             *)
(***************************************************************************)
\* table.getCanPreviousPage() and table.getCanNextPage()
getCanPreviousPage == pagination.pageIndex > 0

getCanNextPage ==
    IF PageCount = 0 THEN FALSE ELSE pagination.pageIndex < PageCount - 1

\* table.setPageIndex(updater): the index is kept from going below 0 (the
\* table has no pageCount option, so there is no upper limit here)
setPageIndex(p, pageIndex) == [p EXCEPT !.pageIndex = Max(0, pageIndex)]

\* the Next button with its disabled attribute left out: table.nextPage()
\* on every click
nextPage_AlwaysEnabled ==
    /\ ~EffectPending
    /\ pagination' = setPageIndex(pagination, pagination.pageIndex + 1)
    /\ UNCHANGED <<data, sorting, columnFilters, rowSelection, globalFilter,
                   editingCell, editValue, selectedStatus, validationErrors,
                   focusedCell, isKeyboardMode, statusEffectPending, commits,
                   hookVars, output>>

\* a click on the Next button: table.nextPage(), nothing while the button
\* is disabled
nextPage ==
    /\ ~EffectPending
    /\ pagination' = IF getCanNextPage
                      THEN setPageIndex(pagination, pagination.pageIndex + 1)
                      ELSE pagination
    /\ UNCHANGED <<data, sorting, columnFilters, rowSelection, globalFilter,
                   editingCell, editValue, selectedStatus, validationErrors,
                   focusedCell, isKeyboardMode, statusEffectPending, commits,
                   hookVars, output>>

\* a click on the Previous button: table.previousPage(), nothing while the
\* button is disabled
previousPage ==
    /\ ~EffectPending
    /\ pagination' = IF getCanPreviousPage
                      THEN setPageIndex(pagination, pagination.pageIndex - 1)
                      ELSE pagination
    /\ UNCHANGED <<data, sorting, columnFilters, rowSelection, globalFilter,
                   editingCell, editValue, selectedStatus, validationErrors,
                   focusedCell, isKeyboardMode, statusEffectPending, commits,
                   hookVars, output>>

\* the page sizes offered by the select
PageSizes == {10, 20, 30, 40, 50}

\* table.setPageSize(Number(e.target.value)): the page that holds the top
\* row of the current page becomes the current page
setPageSize(pageSize) ==
    /\ ~EffectPending
    /\ pagination' =
           [pageIndex |-> (pagination.pageSize * pagination.pageIndex)
                              \div Max(1, pageSize),
            pageSize |-> Max(1, pageSize)]
    /\ UNCHANGED <<data, sorting, columnFilters, rowSelection, globalFilter,
                   editingCell, editValue, selectedStatus, validationErrors,
                   focusedCell, isKeyboardMode, statusEffectPending, commits,
                   hookVars, output>>

\* the number of students of SpecPage: three pages of the smallest size
NumPageStudents == 21

\* the checkbox of one row of each page is clicked; rows are deleted once
NextPage ==
    \/ nextPage
    \/ previousPage
    \/ \E pageSize \in PageSizes : setPageSize(pageSize)
    \/ \E s \in 1..Len(AllStatuses) : handleStatusFilterChange(AllStatuses[s])
    \/ selectAllStatuses
    \/ statusFilterEffect
    \/ \E i \in {1, 11, 21} : toggleRowSelected(i)
    \/ Len(data) = NumPageStudents /\ deleteSelectedRows

SpecPage == InitWith(NumPageStudents) /\ [][NextPage]_vars

(***************************************************************************)
(* The hook useTableSettings from its first render on.                     *)
(***************************************************************************)
NextSettings ==
    \/ mountSettings
    \/ saveSettingsEffect
    \/ \E value \in SettingsInputs : setSettings(value)

\* before the first render of the hook, the storage holding any stored text
SpecSettings ==
    /\ InitTable(NumStudents)
    /\ localStorage \in {Null} \cup {Some(text) : text \in StoredTexts}
    /\ settings = NotMounted
    /\ [][NextSettings]_vars

(***************************************************************************)
(* Focused cell and keyboard navigation.                                   *)
(***************************************************************************)
\* the columns whose cells take clicks and double clicks
EditableColumns == SelectSeq(AllColumns, LAMBDA c : c \notin {"select", "id"})

\* Array.prototype.findIndex of a value in a sequence without duplicates,
\* counted from 1; 0 if it is not there
PositionIn(list, v) ==
    IF \A k \in 1..Len(list) : list[k] # v THEN 0
    ELSE CHOOSE k \in 1..Len(list) : list[k] = v

\* handleCellClick(rowId, columnId): a click on a cell that is not edited
handleCellClick(i, columnId) ==
    /\ ~EffectPending
    /\ i \in RenderedRows
    /\ Includes(EditableColumns, columnId)
    /\ editingCell # Some([rowId |-> data[i].id, columnId |-> columnId])
    /\ focusedCell' = Some([rowId |-> data[i].id, columnId |-> columnId])
    /\ isKeyboardMode' = TRUE
    /\ UNCHANGED <<data, sorting, columnFilters, rowSelection, globalFilter,
                   editingCell, editValue, selectedStatus, validationErrors,
                   pagination, statusEffectPending, commits, hookVars, output>>

Directions == {"up", "down", "left", "right", "home", "end"}

\* newRowIndex of navigateTable, counted from 1 (0 is the index -1)
NewRowIndex(direction, currentRowIndex, rowCount) ==
    CASE direction = "up"   -> Max(1, currentRowIndex - 1)
      [] direction = "down" -> Min(rowCount, currentRowIndex + 1)
      [] OTHER              -> currentRowIndex

\* newColIndex of navigateTable, counted from 1
NewColIndex(direction, currentColIndex, columnCount) ==
    CASE direction = "left"  -> Max(1, currentColIndex - 1)
      [] direction = "right" -> Min(columnCount, currentColIndex + 1)
      [] direction = "home"  -> 1
      [] direction = "end"   -> columnCount
      [] OTHER               -> currentColIndex

\* the cell that navigateTable focuses for the current and the new indices
\* of row and column: the focused cell stays if the indices are the same
\* or if there is no row or no column at the new index
NavigateTo(focused, rows, columns, currentRowIndex, currentColIndex, newRowIndex, newColIndex) ==
    IF newRowIndex = currentRowIndex /\ newColIndex = currentColIndex
    THEN focused
    ELSE IF newRowIndex \in 1..Len(rows) /\ newColIndex \in 1..Len(columns)
    THEN Some([rowId |-> data[rows[newRowIndex]].id,
               columnId |-> columns[newColIndex]])
    ELSE focused

\* navigateTable with the current indices found
NavigateFrom(direction, focused, rows, columns, currentRowIndex, currentColIndex) ==
    NavigateTo(focused, rows, columns, currentRowIndex, currentColIndex,
               NewRowIndex(direction, currentRowIndex, Len(rows)),
               NewColIndex(direction, currentColIndex, Len(columns)))

\* the focused cell after navigateTable(direction) for the focused cell
\* `focused`, the rendered rows `rows` and the columns `columns`
navigateTable(direction, focused, rows, columns) ==
    IF focused = Null THEN focused
    ELSE NavigateFrom(direction, focused, rows, columns,
                      PositionIn(rows, RowIndexOf(Val(focused).rowId)),
                      PositionIn(columns, Val(focused).columnId))

\* handleKeyDown for the arrow keys, Ctrl+Home and Ctrl+End; the key may
\* come from the edit input, whose own handler lets it bubble
keyNavigate(direction) ==
    /\ ~EffectPending
    /\ isKeyboardMode
    /\ focusedCell' = navigateTable(direction, focusedCell, RowModel, AllColumns)
    /\ UNCHANGED <<data, sorting, columnFilters, rowSelection, globalFilter,
                   editingCell, editValue, selectedStatus, validationErrors,
                   isKeyboardMode, pagination, statusEffectPending, commits,
                   hookVars, output>>

\* handleKeyDown for Enter and Space outside of the cells: begins the edit
\* of the focused cell if its row is rendered and no cell is edited
keyEnter ==
    /\ isKeyboardMode
    /\ focusedCell # Null
    /\ editingCell = Null
    /\ \E i \in RenderedRows :
           /\ data[i].id = Val(focusedCell).rowId
           /\ handleDoubleClick(i, Val(focusedCell).columnId)

\* does handleKeyDown begin the edit of the focused cell on Enter or Space
EnterBeginsFocused ==
    /\ isKeyboardMode
    /\ focusedCell # Null
    /\ editingCell = Null
    /\ RowIndexOf(Val(focusedCell).rowId) \in RenderedRows
    /\ Val(focusedCell).columnId \notin {"select", "id"}

\* Enter or Space on a cell that has the browser's focus: the cell's
\* onKeyDown begins the edit of the cell, then the key bubbles to
\* handleKeyDown, which begins the edit of the focused cell
cellKeyEnter(i, columnId) ==
    /\ ~EffectPending
    /\ i \in RenderedRows
    /\ Includes(EditableColumns, columnId)
    /\ editingCell # Some([rowId |-> data[i].id, columnId |-> columnId])
    /\ IF EnterBeginsFocused
       THEN /\ editingCell' = focusedCell
            /\ editValue' =
                   String(Val(focusedCell).columnId,
                          data[RowIndexOf(Val(focusedCell).rowId)]
                              [Val(focusedCell).columnId])
            /\ validationErrors' =
                   clearValidationErrors(
                       clearValidationErrors(validationErrors, columnId),
                       Val(focusedCell).columnId)
       ELSE /\ editingCell' = Some([rowId |-> data[i].id, columnId |-> columnId])
            /\ editValue' = String(columnId, data[i][columnId])
            /\ validationErrors' =
                   clearValidationErrors(validationErrors, columnId)
    /\ UNCHANGED <<data, sorting, columnFilters, rowSelection, globalFilter,
                   selectedStatus, focusedCell, isKeyboardMode, pagination,
                   statusEffectPending, commits, hookVars, output>>

\* handleKeyDown for Escape while no cell is edited
keyEscape ==
    /\ ~EffectPending
    /\ isKeyboardMode
    /\ editingCell = Null
    /\ focusedCell' = Null
    /\ isKeyboardMode' = FALSE
    /\ UNCHANGED <<data, sorting, columnFilters, rowSelection, globalFilter,
                   editingCell, editValue, selectedStatus, validationErrors,
                   pagination, statusEffectPending, commits, hookVars, output>>

\* handleGlobalKeyDown and handleKeyDown for Tab
keyTab ==
    /\ ~EffectPending
    /\ ~isKeyboardMode
    /\ isKeyboardMode' = TRUE
    /\ UNCHANGED <<data, sorting, columnFilters, rowSelection, globalFilter,
                   editingCell, editValue, selectedStatus, validationErrors,
                   focusedCell, pagination, statusEffectPending, commits,
                   hookVars, output>>

\* useEffect(..., [table.getRowModel().rows, focusedCell]): focuses the
\* first editable cell of the first rendered row when no cell is focused
focusEffect ==
    /\ ~statusEffectPending
    /\ FocusEffectPending
    /\ focusedCell' = Some([rowId |-> data[RowModel[1]].id,
                            columnId |-> EditableColumns[1]])
    /\ UNCHANGED <<data, sorting, columnFilters, rowSelection, globalFilter,
                   editingCell, editValue, selectedStatus, validationErrors,
                   isKeyboardMode, pagination, statusEffectPending, commits,
                   hookVars, output>>

\* the cells the pointer is used on in SpecKeys; the keyboard reaches all
KeysColumns == {"name", "age"}

NextKeys ==
    \/ \E i \in 1..Len(data), columnId \in KeysColumns :
           handleCellClick(i, columnId)
    \/ \E direction \in Directions : keyNavigate(direction)
    \/ keyEnter
    \/ \E i \in 1..Len(data), columnId \in KeysColumns :
           cellKeyEnter(i, columnId)
    \/ keyEscape
    \/ keyTab
    \/ focusEffect
    \/ \E i \in 1..Len(data), columnId \in KeysColumns \cup {"id"} :
           handleDoubleClick(i, columnId)
    \/ \E c \in 1..Len(AllColumns) :
           \E raw \in TableEditInputs(AllColumns[c]) :
               /\ editingCell # Null
               /\ Val(editingCell).columnId = AllColumns[c]
               /\ stageEditValue(raw)
    \/ saveEditRejected
    \/ saveEditAccepted
    \/ cancelEdit

SpecKeys == Init /\ [][NextKeys]_vars

\* the table driven from the keyboard alone: every key goes through
\* handleKeyDown or the edit input's onKeyDown
NextKeyboard ==
    \/ \E direction \in Directions : keyNavigate(direction)
    \/ keyEnter
    \/ keyEscape
    \/ keyTab
    \/ focusEffect
    \/ \E c \in 1..Len(AllColumns) :
           \E raw \in TableEditInputs(AllColumns[c]) :
               /\ editingCell # Null
               /\ Val(editingCell).columnId = AllColumns[c]
               /\ stageEditValue(raw)
    \/ saveEditRejected
    \/ saveEditAccepted
    \/ cancelEdit

SpecKeyboard == Init /\ [][NextKeyboard]_vars

(***************************************************************************)
(* CSV export.  The download is recorded in `output` by its text; the file *)
(* name, which holds the date of the day, is left out.                     *)
(***************************************************************************)
\* the string as it is, no quote doubled
DoubleQuotes_Unescaped(s) == s

\* s.replace(/"/g, '""')
RECURSIVE DoubleQuotes(_)
DoubleQuotes(s) ==
    IF s = "" THEN ""
    ELSE (IF CharAt(s, 1) = "\"" THEN "\"\"" ELSE CharAt(s, 1))
             \o DoubleQuotes(Substring(s, 2, Len(s)))

\* rowsToExport: the selected rows if there are any, else the filtered rows
rowsToExport ==
    IF Len(SelectedRowModel) > 0 THEN SelectedRowModel ELSE FilteredRowModel

\* the line of a row: [row.id, `"${row.name.replace(...)}"`, ...].join(',')
CsvLine(row) ==
    JoinFrom(<<row.id,
               "\"" \o DoubleQuotes(row.name) \o "\"",
               IntToStr(row.age),
               IntToStr(row.grade),
               "\"" \o DoubleQuotes(row.email) \o "\"",
               "\"" \o DoubleQuotes(row.phone) \o "\"",
               "\"" \o DoubleQuotes(row.major) \o "\"",
               row.status>>, 1)

\* csvContent: [headers.join(','), ...lines].join('\n'), from line k on
RECURSIVE csvContent(_, _)
csvContent(rows, k) ==
    IF k = 0
    THEN "ID,Name,Age,Grade,Email,Phone,Major,Status" \o csvContent(rows, 1)
    ELSE IF k > Len(rows) THEN ""
    ELSE "\n" \o CsvLine(data[rows[k]]) \o csvContent(rows, k + 1)

\* exportToCSV (the Export CSV button): the download of the text
exportToCSV ==
    /\ ~EffectPending
    /\ output' = Some([kind |-> "download", text |-> csvContent(rowsToExport, 0)])
    /\ UNCHANGED <<data, sorting, columnFilters, rowSelection, globalFilter,
                   editingCell, editValue, selectedStatus, validationErrors,
                   focusedCell, isKeyboardMode, pagination,
                   statusEffectPending, commits, hookVars>>

\* the export together with what decides its rows and their text: a sort
\* by age, a status filter, two checkboxes and an accepted edit of an email
\* to an address with a quote and a comma in it
NextCsv ==
    \/ handleColumnSort("age")
    \/ handleStatusFilterChange("active")
    \/ statusFilterEffect
    \/ \E i \in {1, 3} : toggleRowSelected(i)
    \/ handleDoubleClick(2, "email")
    \/ stageEditValue("a\",b@c.de")
    \/ saveEditAccepted
    \/ exportToCSV

SpecCsv == Init /\ [][NextCsv]_vars

(***************************************************************************)
(* The whole view: the handlers of the table together, each on one or two  *)
(* inputs: one sorted column, one status button, one search text, one      *)
(* checkbox, two page sizes, one clicked cell, the keys up and down, one   *)
(* edited cell, and a delete that is confirmed.                            *)
(***************************************************************************)
NextView ==
    \/ handleColumnSort("age")
    \/ clearAllSorting
    \/ handleStatusFilterChange("active")
    \/ clearAllFilters
    \/ statusFilterEffect
    \/ \E text \in {"", "19"} : setGlobalFilter(text)
    \/ toggleRowSelected(1)
    \/ deleteConfirmed
    \/ nextPage
    \/ previousPage
    \/ \E size \in {10, 20} : setPageSize(size)
    \/ handleCellClick(2, "name")
    \/ \E direction \in {"up", "down"} : keyNavigate(direction)
    \/ handleDoubleClick(1, "age")
    \/ stageEditValue("30")
    \/ saveEditAccepted
    \/ cancelEdit

SpecView == Init /\ [][NextView]_vars

(***************************************************************************)
(* Properties of inline editing (SpecEdit).                                *)
(***************************************************************************)
\* the column of the cell that is being edited
EditedColumn == Val(editingCell).columnId

\* a step that handles one saveEdit call while a cell is being edited
CommitStep == editingCell # Null /\ commits' # commits

\* does the list of validation errors hold an error of the field
HasErrorFor(errors, field) ==
    \E k \in 1..Len(errors) :
        errors[k].field = field /\ Len(errors[k].message) > 0

\* the trimmed string without its sign
UnsignedPart(t) ==
    IF CharAt(t, 1) \in {"+", "-"} THEN Substring(t, 2, Len(t)) ELSE t

\* is the string an integer written in decimal digits
IsIntegerLiteral(s) ==
    /\ Len(UnsignedPart(Trim(s))) > 0
    /\ \A i \in 1..Len(UnsignedPart(Trim(s))) :
           CharAt(UnsignedPart(Trim(s)), i) \in Digits

\* the integer that an integer literal denotes
IntegerOf(s) ==
    (IF CharAt(Trim(s), 1) = "-" THEN 0 - 1 ELSE 1)
        * DigitsValue(UnsignedPart(Trim(s)), 10)

\* C1: a saveEdit call whose staged value validation rejects leaves the
\* records unchanged, keeps the editor open on the same row and field, and
\* records a validation error with a non-empty message for that field.
C1_RejectedCommitKeepsRecords ==
    [][(CommitStep /\ validateValue(EditedColumn, editValue) # Null) =>
           /\ data' = data
           /\ editingCell' = editingCell
           /\ HasErrorFor(validationErrors', EditedColumn)]_vars

\* C1 witness: a commit was rejected; the editor is still open and the
\* error of its field is recorded
C1_Witness ==
    /\ commits > 0
    /\ editingCell # Null
    /\ validateValue(EditedColumn, editValue) # Null
    /\ HasErrorFor(validationErrors, EditedColumn)

\* C2: for age and grade a saveEdit call with a non-empty staged string that
\* does not parse as an integer is rejected: nothing is written, the editor
\* stays open and an error is recorded.
C2_NonIntegerRejected ==
    [][(/\ CommitStep
        /\ EditedColumn \in {"age", "grade"}
        /\ editValue # ""
        /\ parseInt(editValue) = Null) =>
           /\ data' = data
           /\ editingCell' = editingCell
           /\ HasErrorFor(validationErrors', EditedColumn)]_vars

\* the integer spelled by the decimal digits at the start of the string
\* (after white space and a sign), 0 when there are none
Base10Integer(s) ==
    SignOf(TrimStart(s))
        * DigitsValue(Substring(TrimStart(s), AfterSign(TrimStart(s)),
                                AfterSign(TrimStart(s)) - 1
                                    + DigitRun(TrimStart(s),
                                               AfterSign(TrimStart(s)), 10)),
                      10)

\* the value a commit is to write: a base-10 integer for age and grade, the
\* staged string for any other field
ConvertedValue(columnId, s) ==
    IF columnId \in {"age", "grade"} THEN Base10Integer(s) ELSE s

ViolatedBound(columnId, v) ==
    CASE columnId = "age" /\ v < 16    -> Some(16)
      [] columnId = "age" /\ v > 100   -> Some(100)
      [] columnId = "grade" /\ v < 0   -> Some(0)
      [] columnId = "grade" /\ v > 100 -> Some(100)
      [] OTHER                         -> Null

\* does the message name the bound, in digits or (for zero) in words
NamesBound(message, bound) ==
    \/ StringIncludes(message, IntToStr(bound))
    \/ bound = 0 /\ StringIncludes(message, "negative")

\* is the staged value an integer outside the range of the edited column
StagedOutOfRange ==
    /\ editingCell # Null
    /\ EditedColumn \in {"age", "grade"}
    /\ IsIntegerLiteral(editValue)
    /\ ViolatedBound(EditedColumn, IntegerOf(editValue)) # Null

\* C4: a saveEdit call on age with an integer below 16 or above 100, or on
\* grade with an integer below 0 or above 100, is rejected: the records stay
\* unchanged and the recorded error message names the violated bound.
C4_OutOfRangeRejected ==
    [][(CommitStep /\ StagedOutOfRange) =>
           /\ data' = data
           /\ \E k \in 1..Len(validationErrors') :
                  /\ validationErrors'[k].field = EditedColumn
                  /\ NamesBound(validationErrors'[k].message,
                                Val(ViolatedBound(EditedColumn,
                                                  IntegerOf(editValue))))]_vars

\* C4 witness: the staged age 15 was rejected with a message naming 16
C4_Witness ==
    /\ commits > 0
    /\ StagedOutOfRange
    /\ EditedColumn = "age"
    /\ editValue = "15"
    /\ \E k \in 1..Len(validationErrors) :
           /\ validationErrors[k].field = "age"
           /\ StringIncludes(validationErrors[k].message, "16")

(***************************************************************************)
(* Properties of sorting (SpecSort).                                       *)
(***************************************************************************)
\* does the list of sort rules hold a rule of the field
HasRule(rules, columnId) == \E k \in 1..Len(rules) : rules[k].id = columnId

\* the sortable column headers
SortableSet == {SortableColumns[k] : k \in 1..Len(SortableColumns)}

\* C5 as stated: three toggles of the same field in a row give back the
\* sort rules that were there before the first.
C5_ThreeTogglesRestore ==
    \A c \in SortableSet :
        toggleSort(toggleSort(toggleSort(sorting, c), c), c) = sorting

\* C5 amended: a toggle never removes a rule; two toggles of a field that
\* has a rule give back the sort rules; a field without a rule becomes
\* ascending (last), then descending, then ascending again.
C5_TwoTogglesRestore ==
    \A c \in SortableSet :
        /\ Len(toggleSort(sorting, c)) >= Len(sorting)
        /\ HasRule(toggleSort(sorting, c), c)
        /\ HasRule(sorting, c) =>
               /\ toggleSort(sorting, c) # sorting
               /\ toggleSort(toggleSort(sorting, c), c) = sorting
        /\ ~HasRule(sorting, c) =>
               /\ toggleSort(sorting, c) =
                      Append(sorting, [id |-> c, desc |-> FALSE])
               /\ toggleSort(toggleSort(sorting, c), c) =
                      Append(sorting, [id |-> c, desc |-> TRUE])
               /\ toggleSort(toggleSort(toggleSort(sorting, c), c), c) =
                      toggleSort(sorting, c)

\* C5 witness: a field was toggled twice and its rule is descending, next
\* to a field without a rule
C5_Witness ==
    /\ \E k \in 1..Len(sorting) : sorting[k].desc
    /\ \E c \in SortableSet : ~HasRule(sorting, c)

\* C6: a step that adds a sort rule appends one ascending rule of a field
\* that had none, and leaves the rules that were there in place, with their
\* directions and their order.
C6_ToggleAbsentAppends ==
    [][Len(sorting') > Len(sorting) =>
           /\ Len(sorting') = Len(sorting) + 1
           /\ SubSeq(sorting', 1, Len(sorting)) = sorting
           /\ ~sorting'[Len(sorting')].desc
           /\ ~HasRule(sorting, sorting'[Len(sorting')].id)]_vars

\* C6 witness: an ascending rule was appended after a descending one
C6_Witness ==
    /\ Len(sorting) >= 2
    /\ sorting[1].desc
    /\ ~sorting[Len(sorting)].desc

\* C7: no field has two sort rules.
C7_OneRulePerField ==
    \A i, j \in 1..Len(sorting) : sorting[i].id = sorting[j].id => i = j

\* C7 witness: several rules, one of them toggled after the others were
\* added
C7_Witness ==
    /\ Len(sorting) >= 2
    /\ sorting[2].desc
    /\ ~sorting[1].desc

(***************************************************************************)
(* Properties of selection and deletion (SpecTable).                       *)
(***************************************************************************)
\* the identifiers of the records whose rows are selected
SelectionIds ==
    {data[i].id : i \in {j \in rowSelection : j \in 1..Len(data)}}

\* the identifiers of the rows of the filtered view
ViewIds == {data[FilteredRowModel[k]].id : k \in 1..Len(FilteredRowModel)}

\* C8: a step that deletes records removes exactly the records whose rows
\* were selected, hidden by the filters or not, and keeps the others in
\* their order; afterwards neither the filtered view nor the selection
\* holds an identifier of a deleted record.
C8_DeleteRemovesSelected ==
    [][Len(data') < Len(data) =>
           /\ data' = SelectSeq(data, LAMBDA r : r.id \notin SelectionIds)
           /\ ViewIds' \cap SelectionIds = {}
           /\ SelectionIds' \cap SelectionIds = {}]_vars

\* C8 witness: records were deleted while the status filter hides rows
C8_Witness ==
    /\ Len(data) < NumStudents
    /\ Len(data) > 0
    /\ rowSelection = {}
    /\ columnFilters # <<>>
    /\ Len(FilteredRowModel) < Len(data)

\* C9: every selected row is a row of a record of the record set.
C9_SelectionWithinRecords == \A i \in rowSelection : i \in 1..Len(data)

\* C9 witness: rows are selected again after a deletion, one of them hidden
\* by the status filter
C9_Witness ==
    /\ Len(data) < NumStudents
    /\ \E i \in rowSelection : i \notin RenderedRows

\* no two records have the same identifier
IdsUnique ==
    \A i, j \in 1..Len(data) : data[i].id = data[j].id => i = j

\* a step keeps the identifier of every record that stays, and adds none
IdsKept ==
    /\ Len(data') <= Len(data)
    /\ Len(data') = Len(data) =>
           \A i \in 1..Len(data) : data'[i].id = data[i].id
    /\ \A j \in 1..Len(data') :
           \E i \in j..Len(data) : data[i].id = data'[j].id

\* C10: identifiers are unique in every reachable state, starting with the
\* generated records, and no step changes the identifier of a record or
\* adds an identifier.
C10_IdsUniqueAndFixed == [](IdsUnique) /\ [][IdsKept]_vars

\* C10 witness: an edit was written and a record was deleted
C10_Witness ==
    /\ commits > 0
    /\ focusedCell # Null
    /\ Val(focusedCell).columnId = "status"
    /\ Len(data) < NumStudents
    /\ Len(data) > 1

(***************************************************************************)
(* Properties of the edit cursor and of the focused cell (SpecKeys).       *)
(***************************************************************************)
\* a step that opens the editor on a cell
BeginEditStep == editingCell' # editingCell /\ editingCell' # Null

\* is the string the string form of the value of the column
IsStringOf(columnId, s, value) ==
    IF columnId \in NumberColumns
    THEN /\ IsIntegerLiteral(s)
         /\ IntegerOf(s) = value
         /\ Trim(s) = s
         /\ (Len(s) > 1 => CharAt(UnsignedPart(s), 1) # "0")
    ELSE s = value

\* C11: a step that opens the editor never opens it on the identifier or
\* the selection column; it sets the cursor to a record's id and a field,
\* stages the string form of that record's current value of the field,
\* leaves no validation error of the field and changes no record.
C11_BeginEditStagesCurrentValue ==
    [][BeginEditStep =>
          /\ Val(editingCell').columnId \notin {"select", "id"}
          /\ Includes(AllColumns, Val(editingCell').columnId)
          /\ RowIndexOf(Val(editingCell').rowId) \in 1..Len(data)
          /\ IsStringOf(Val(editingCell').columnId, editValue',
                        data[RowIndexOf(Val(editingCell').rowId)]
                            [Val(editingCell').columnId])
          /\ ~HasErrorFor(validationErrors', Val(editingCell').columnId)
          /\ data' = data]_vars

\* the editor was opened on a numeric field after another field's edit was
\* rejected
C11_Witness ==
    /\ editingCell # Null
    /\ EditedColumn = "age"
    /\ IsStringOf("age", editValue,
                  data[RowIndexOf(Val(editingCell).rowId)].age)
    /\ HasErrorFor(validationErrors, "name")
    /\ commits = 1

\* a step that closes the editor without a saveEdit call
CancelStep == editingCell # Null /\ editingCell' = Null /\ commits' = commits

\* C12: a step that cancels the edit clears the cursor, the staged value and
\* every validation error and leaves the records as they were, whatever
\* value was staged.
C12_CancelClearsEditState ==
    [][CancelStep =>
          /\ editingCell' = Null
          /\ editValue' = ""
          /\ validationErrors' = <<>>
          /\ data' = data]_vars

\* the editor is closed and no error is left after a rejected saveEdit call,
\* with every record as generated
C12_Witness ==
    /\ commits = 1
    /\ editingCell = Null
    /\ editValue = ""
    /\ validationErrors = <<>>
    /\ \E p \in Profiles : data = generateStudents(NumStudents, p)
    /\ focusedCell = Some([rowId |-> data[1].id, columnId |-> "name"])

(***************************************************************************)
(* Properties of the filters (SpecFilter).                                 *)
(***************************************************************************)
\* the rows that pass the status filter which the effect applies for a
\* selection of statuses
ViewUnder(selected) ==
    SelectSeq([i \in 1..Len(data) |-> i],
              LAMBDA i :
                  \A k \in 1..Len(applyStatusFilter(columnFilters, selected)) :
                      applyStatusFilter(columnFilters, selected)[k].id = "status"
                          => statusFilterFn(data[i], "status",
                                 applyStatusFilter(columnFilters, selected)[k].value))

\* C13 as stated: the empty set of allowed statuses gives a view without
\* rows, which differs from the view of the three allowed statuses.
C13_EmptySetExcludesAll ==
    /\ ViewUnder(<<>>) = <<>>
    /\ ViewUnder(<<>>) # ViewUnder(AllStatuses)

\* C13 amended: the set of allowed statuses is never empty and no status
\* filter with an empty value is applied; an empty set of allowed statuses
\* would be handled as no filter, every row passing.
C13_AllowedSetNeverEmpty ==
    /\ Len(selectedStatus) >= 1
    /\ \A k \in 1..Len(columnFilters) :
           columnFilters[k].id = "status" => Len(columnFilters[k].value) >= 1
    /\ ViewUnder(<<>>) = ViewUnder(AllStatuses)
    /\ Len(ViewUnder(<<>>)) = Len(data)

\* one status is left allowed and its filter hides a record
C13_Witness ==
    /\ Len(selectedStatus) = 1
    /\ ~statusEffectPending
    /\ Len(columnFilters) = 1
    /\ columnFilters[1].value = selectedStatus
    /\ Len(FilteredRowModel) < Len(data)

\* the statuses that the applied column filters let pass
AppliedStatuses ==
    IF \A k \in 1..Len(columnFilters) : columnFilters[k].id # "status"
    THEN {AllStatuses[s] : s \in 1..Len(AllStatuses)}
    ELSE {st \in {AllStatuses[s] : s \in 1..Len(AllStatuses)} :
              \A k \in 1..Len(columnFilters) :
                  columnFilters[k].id = "status"
                      => Includes(columnFilters[k].value, st)}

\* C14: in every state that is rendered the status filter applied to the
\* rows is the selected set of statuses (all three selected: no filter).
C14_FilterStateConsistent ==
    AppliedStatuses = {selectedStatus[s] : s \in 1..Len(selectedStatus)}

\* are two characters the same up to the case of a Latin letter
SameLetter(a, b) ==
    \/ a = b
    \/ a \in DOMAIN LowerCaseOf /\ LowerCaseOf[a] = b
    \/ b \in DOMAIN LowerCaseOf /\ LowerCaseOf[b] = a

\* is the text a case-insensitive substring of the string
IsSubstringIgnoringCase(text, s) ==
    \E offset \in 0..Len(s) :
        /\ offset + Len(text) <= Len(s)
        /\ \A j \in 1..Len(text) :
               SameLetter(CharAt(s, offset + j), CharAt(text, j))

\* every field of a record
RecordFields ==
    {"id", "name", "age", "grade", "email", "phone", "major",
     "enrollmentDate", "graduationDate", "status"}

\* the fields of a record that have a column in the table
ColumnFields == {AccessorColumns[c] : c \in 1..Len(AccessorColumns)}

\* does the search text match the record in one of the fields
TextMatches(row, fields) ==
    \E f \in fields : IsSubstringIgnoringCase(globalFilter, String(f, row[f]))

\* is the status of the record allowed by the selected statuses
StatusAllowed(row) ==
    Len(selectedStatus) = Len(AllStatuses) \/ Includes(selectedStatus, row.status)

\* C15 as stated: once the status filter is applied, a record is in the
\* filtered rows if and only if its status is allowed and the search text
\* is a case-insensitive substring of the string form of one of its fields.
C15_FilteredIffAnyFieldMatches ==
    ~statusEffectPending =>
        \A i \in 1..Len(data) :
            Includes(FilteredRowModel, i)
                <=> (StatusAllowed(data[i]) /\ TextMatches(data[i], RecordFields))

\* C15 amended: the search text is looked for in the fields that have a
\* column (id, name, age, grade, email, phone, major, status), not in the
\* enrollment and graduation dates.
C15_FilteredIffColumnMatches ==
    ~statusEffectPending =>
        \A i \in 1..Len(data) :
            Includes(FilteredRowModel, i)
                <=> (StatusAllowed(data[i]) /\ TextMatches(data[i], ColumnFields))

\* an upper-case search text matches the status of a record and hides a
\* record that the status filter lets pass
C15_Witness ==
    /\ ~statusEffectPending
    /\ globalFilter = "ACTIVE"
    /\ Len(selectedStatus) < 3
    /\ Len(FilteredRowModel) > 0
    /\ \E i \in 1..Len(data) :
           /\ StatusAllowed(data[i])
           /\ ~TextMatches(data[i], ColumnFields)
           /\ ~Includes(FilteredRowModel, i)

(***************************************************************************)
(* Properties of the sorted rows (SpecOrder).                              *)
(***************************************************************************)
\* is the value a before the value b in the natural order of the column
ValueBefore(columnId, a, b) ==
    IF columnId \in NumberColumns THEN a < b ELSE CompareStrings(a, b) < 0

\* do the records i and j have the same value under each of the first n
\* sort rules
SameKeys(i, j, n) ==
    \A k \in 1..n : data[i][sorting[k].id] = data[j][sorting[k].id]

\* may the record i stand before the record j: the first sort rule under
\* which they differ has them in its direction; records with the same
\* value under every rule are in the order of the Record Set
InSortOrder(i, j) ==
    \/ SameKeys(i, j, Len(sorting)) /\ i < j
    \/ \E k \in 1..Len(sorting) :
           /\ SameKeys(i, j, k - 1)
           /\ data[i][sorting[k].id] # data[j][sorting[k].id]
           /\ IF sorting[k].desc
              THEN ValueBefore(sorting[k].id, data[j][sorting[k].id],
                               data[i][sorting[k].id])
              ELSE ValueBefore(sorting[k].id, data[i][sorting[k].id],
                               data[j][sorting[k].id])

\* the ages of the records in the order of the Record Set
Ages == [i \in 1..Len(data) |-> data[i].age]

\* C16: the sorted rows are the filtered rows, each once, ordered by the
\* sort rules in their priority order, and records with the same value
\* under every rule keep their order of the Record Set, for ascending and
\* for descending rules; the ages [30, 18, 18] of the records 1, 2, 3 give
\* [2, 3, 1] ascending and [1, 2, 3] descending.
C16_StableMultiKeySort ==
    LET sorted == SortedRowModel
    IN  /\ Len(sorted) = Len(FilteredRowModel)
        /\ {sorted[p] : p \in 1..Len(sorted)}
               = {FilteredRowModel[p] : p \in 1..Len(FilteredRowModel)}
        /\ \A p, q \in 1..Len(sorted) :
               p < q => InSortOrder(sorted[p], sorted[q])
        /\ (Ages = <<30, 18, 18>> /\ Len(sorted) = 3) =>
               /\ sorting = <<[id |-> "age", desc |-> FALSE]>>
                      => sorted = <<2, 3, 1>>
               /\ sorting = <<[id |-> "age", desc |-> TRUE]>>
                      => sorted = <<1, 2, 3>>

\* descending by age, the two records of the same age follow the older one
\* in the order of the Record Set
C16_Witness ==
    /\ Ages = <<30, 18, 18>>
    /\ sorting = <<[id |-> "age", desc |-> TRUE]>>
    /\ SortedRowModel = <<1, 2, 3>>
    /\ RowModel = <<1, 2, 3>>

(***************************************************************************)
(* Properties of pagination (SpecPage).                                    *)
(***************************************************************************)
\* the number of rows after filtering
FilteredCount == Len(FilteredRowModel)

\* is the index the index of a page of `count` rows: index < ceil(count/size)
IsPageOf(index, count, size) == index >= 0 /\ index * size < count

\* a step of the Previous and Next buttons: nothing but the page index may
\* change
PageButtonStep ==
    /\ pagination'.pageSize = pagination.pageSize
    /\ UNCHANGED <<data, columnFilters, globalFilter, selectedStatus,
                   rowSelection, statusEffectPending, hookVars, output>>

\* C17: while there are filtered rows the page size is positive and the
\* page index is that of a page of them, 0 <= index < ceil(count / size);
\* the Previous and Next buttons move the index by one page at most and
\* leave it unchanged on the first and on the last page.
C17_PageIndexInRange ==
    /\ [](/\ pagination.pageSize > 0
          /\ FilteredCount > 0 =>
                 IsPageOf(pagination.pageIndex, FilteredCount,
                          pagination.pageSize))
    /\ [][PageButtonStep =>
             /\ pagination'.pageIndex \in
                    {pagination.pageIndex - 1, pagination.pageIndex,
                     pagination.pageIndex + 1}
             /\ pagination'.pageIndex >= 0
             /\ ~IsPageOf(pagination.pageIndex + 1, FilteredCount,
                          pagination.pageSize)
                    => pagination'.pageIndex <= pagination.pageIndex]_vars

\* 21 filtered rows in pages of 10: the third and last page is shown
C17_Witness ==
    /\ FilteredCount = 21
    /\ pagination = [pageIndex |-> 2, pageSize |-> 10]
    /\ PageCount = 3
    /\ ~getCanNextPage
    /\ RowModel = <<21>>

(***************************************************************************)
(* Properties of the settings hook (SpecSettings).                         *)
(***************************************************************************)
\* a step that mounts the hook (the initializer of useState runs)
MountStep == settings = NotMounted /\ settings' # NotMounted

\* is the value a settings object: the three members, a positive page size
IsSettings(value) ==
    /\ value.kind = "object"
    /\ value.columnVisibility # Null
    /\ value.sorting # Null
    /\ value.pageSize # Null
    /\ Val(value.pageSize) > 0

\* does the storage hold the text of a settings object
HoldsSettings(stored) ==
    /\ stored # Null
    /\ \E value \in JsonValues :
           IsSettings(value) /\ JSONStringify(value) = Val(stored)

\* C18: mounting the hook never throws and yields settings with a positive
\* page size: the stored settings if the storage holds the text of a
\* settings object, the defaults (no column visibility, page size 10, no
\* sort rule) if the item is absent, is not JSON or is no settings object.
C18_LoadFallsBackToDefaults ==
    [][MountStep =>
          /\ settings'.kind # "SyntaxError"
          /\ IsSettings(settings')
          /\ ~HoldsSettings(localStorage) => settings' = DefaultSettings
          /\ HoldsSettings(localStorage)
                 => JSONStringify(settings') = Val(localStorage)]_vars


(***************************************************************************)
(* Properties of the focused cell during an edit (SpecKeyboard, SpecKeys). *)
(***************************************************************************)

\* a key that reaches the table while the same cell stays in edit: the
\* cursor is open before and after the step and no edit is committed
KeyWhileEditingStep ==
    /\ editingCell # Null
    /\ editingCell' = editingCell
    /\ commits' = commits

\* C19: while a cell is being edited no key moves the focused cell: a step
\* that leaves the edit cursor open on the same cell leaves the focused
\* cell unchanged
C19_FocusFixedWhileEditing ==
    [][KeyWhileEditingStep => focusedCell' = focusedCell]_vars


\* a saveEdit call that closes the editor, which is a successful commit
AcceptedCommitStep ==
    /\ editingCell # Null
    /\ commits' # commits
    /\ editingCell' = Null

\* C20: the focus survives the end of an edit: after a successful commit the
\* focused cell is the cell that was edited, and a cancel leaves the focused
\* cell as it was; neither clears a focus that was set.
C20_FocusSurvivesEdit ==
    [][/\ AcceptedCommitStep => focusedCell' = editingCell
       /\ CancelStep => focusedCell' = focusedCell
       /\ (AcceptedCommitStep \/ CancelStep) /\ focusedCell # Null
              => focusedCell' # Null]_vars

\* the status of the first record was committed as 'graduated' and the
\* focus is on that cell, the editor being closed
C20_Witness ==
    /\ commits = 1
    /\ editingCell = Null
    /\ data[1].id = "STU001"
    /\ data[1].status = "graduated"
    /\ focusedCell = Some([rowId |-> "STU001", columnId |-> "status"])


(***************************************************************************)
(* Properties of the records after edits (SpecEdit).                       *)
(***************************************************************************)

\* C21: every record's status is active, graduated or suspended and every
\* record's major is one of the twelve allowed majors, in every reachable
\* state: a commit on an enumerated field writes a member of its set.
C21_EnumFieldsInAllowedSet ==
    \A i \in 1..Len(data) :
        /\ data[i].status \in {"active", "graduated", "suspended"}
        /\ data[i].major \in
               {"Computer Science", "Mathematics", "Physics", "Chemistry",
                "Biology", "Engineering", "Business", "Economics",
                "Psychology", "Literature", "History", "Art"}

\* a commit has written the major Art, which the generator never draws,
\* into the first record, and the editor is closed
C21_Witness ==
    /\ data[1].major = "Art"
    /\ editingCell = Null
    /\ commits >= 1


\* C26: in every reachable state every record's age is an integer from 16
\* to 100 and every record's grade is an integer from 0 to 100, whatever
\* strings were staged and committed.
C26_AgeAndGradeInRange ==
    \A i \in 1..Len(data) :
        /\ data[i].age \in 16..100
        /\ data[i].grade \in 0..100


\* a saveEdit call on a record as the generator made it, the staged value
\* being the string that beginning the edit seeded
UntouchedCommitStep ==
    /\ editingCell # Null
    /\ commits' # commits
    /\ \E p \in Profiles : data = generateStudents(NumStudents, p)
    /\ editValue = String(EditedColumn,
                          data[RowIndexOf(Val(editingCell).rowId)][EditedColumn])

\* C27: committing an edit whose staged value was left as seeded passes
\* validation, closes the editor and leaves the records unchanged, for
\* every generated record and every editable field.
C27_UntouchedEditRoundTrip ==
    [][UntouchedCommitStep => editingCell' = Null /\ data' = data]_vars


\* C28: validation errors exist only for the open edit: when the list of
\* errors is not empty an editor is open, every error is of the edited
\* field, and no field has two errors.
C28_ErrorsOnlyForOpenEdit ==
    /\ validationErrors # <<>> => editingCell # Null
    /\ \A k \in 1..Len(validationErrors) :
           editingCell # Null => validationErrors[k].field = EditedColumn
    /\ \A k, l \in 1..Len(validationErrors) :
           validationErrors[k].field = validationErrors[l].field => k = l


(***************************************************************************)
(* Properties of the selected statuses (SpecFilter).                       *)
(***************************************************************************)

\* the status filters among the applied column filters
StatusFilters == SelectSeq(columnFilters, LAMBDA filter : filter.id = "status")

\* C29: the selected statuses are never empty, hold no status twice and
\* hold only active, graduated and suspended; a step never removes the only
\* selected status; and once the effect has run there is a status filter
\* exactly when fewer than three statuses are selected, and its value is the
\* selected statuses.
C29_SelectedStatusWellFormed ==
    /\ [](/\ Len(selectedStatus) >= 1
          /\ \A k, l \in 1..Len(selectedStatus) :
                 selectedStatus[k] = selectedStatus[l] => k = l
          /\ \A k \in 1..Len(selectedStatus) :
                 selectedStatus[k] \in {"active", "graduated", "suspended"}
          /\ ~statusEffectPending =>
                 /\ Len(StatusFilters) = (IF Len(selectedStatus) < 3 THEN 1 ELSE 0)
                 /\ \A k \in 1..Len(StatusFilters) :
                        StatusFilters[k].value = selectedStatus)
    /\ [][Len(selectedStatus) = 1
              => \E k \in 1..Len(selectedStatus') :
                     selectedStatus'[k] = selectedStatus[1]]_vars

\* suspended was left as the only selected status and active was selected
\* again; the effect has set the filter of the two
C29_Witness ==
    /\ selectedStatus = <<"suspended", "active">>
    /\ ~statusEffectPending
    /\ StatusFilters = <<[id |-> "status", value |-> <<"suspended", "active">>]>>


(***************************************************************************)
(* Properties of the delete button (SpecPage).                             *)
(***************************************************************************)

\* a click on Delete Selected that ends in the alert or in a declined
\* confirmation, seen by the dialog it leaves behind
DeleteRefusedStep ==
    /\ output' # output
    /\ output' # Null
    /\ \/ Val(output').kind = "alert"
       \/ Val(output').kind = "confirm" /\ ~Val(output').answer

\* C23: a delete with no row selected and a delete whose confirmation is
\* declined change nothing: records, selection, filters, sorting, page,
\* edit and focus are as before; and no step removes records while no row
\* is selected.
C23_RefusedDeleteChangesNothing ==
    [][/\ DeleteRefusedStep =>
              UNCHANGED <<data, sorting, columnFilters, rowSelection,
                          globalFilter, editingCell, editValue,
                          selectedStatus, validationErrors, focusedCell,
                          isKeyboardMode, pagination, statusEffectPending,
                          commits>>
       /\ SelectedIds = {} => Len(data') = Len(data)]_vars

\* a confirmation was declined while two rows were selected, and both
\* records and the selection are still there
C23_Witness ==
    /\ output = Confirm(2, FALSE)
    /\ Cardinality(rowSelection) = 2
    /\ Cardinality(SelectedIds) = 2
    /\ Len(data) = NumPageStudents


(***************************************************************************)
(* Properties of the whole view (SpecView).                                *)
(***************************************************************************)

\* a delete that the user confirmed, seen by its dialog and by the rows
\* that were selected
ConfirmedDeleteStep ==
    /\ SelectedIds # {}
    /\ output' = Confirm(Cardinality(SelectedIds), TRUE)

\* C22: the records, their field values and their order change only in a
\* step that commits an edit or deletes the selected rows: sorting,
\* filtering, searching, selecting, paging, clicking a cell and the arrow
\* keys leave the sequence of records exactly as it was.
C22_OnlyCommitAndDeleteMutate ==
    [][data' # data =>
          \/ editingCell # Null /\ commits' # commits
          \/ ConfirmedDeleteStep]_vars

\* the records are as generated, in ascending order of age, under a
\* descending sort by age, with a status filter and a search text set, a
\* row selected, a larger page and the focus moved by a key
C22_Witness ==
    /\ data = generateStudents(NumStudents, "mix")
    /\ sorting = <<[id |-> "age", desc |-> TRUE]>>
    /\ data[1].age < data[2].age
    /\ Len(columnFilters) = 1
    /\ globalFilter = "19"
    /\ rowSelection = {1}
    /\ pagination.pageSize = 20
    /\ focusedCell = Some([rowId |-> "STU003", columnId |-> "name"])

\* C30: a focused cell refers to a record of the records and to a column
\* of the table, in every reachable state.
C30_FocusedCellExists ==
    focusedCell # Null =>
        /\ \E i \in 1..Len(data) : data[i].id = Val(focusedCell).rowId
        /\ Includes(AllColumns, Val(focusedCell).columnId)


(***************************************************************************)
(* Properties of the CSV export (SpecCsv).                                 *)
(***************************************************************************)

\* a quoted field without its outer quotes, two quotes read as one
RECURSIVE UnDouble(_)
UnDouble(s) ==
    IF s = "" THEN ""
    ELSE IF Substring(s, 1, 2) = "\"\""
    THEN "\"" \o UnDouble(Substring(s, 3, Len(s)))
    ELSE CharAt(s, 1) \o UnDouble(Substring(s, 2, Len(s)))

\* the value of a field as a CSV reader gives it
FieldValue(field) ==
    IF CharAt(field, 1) = "\""
    THEN UnDouble(Substring(field, 2, Len(field) - 1))
    ELSE field

\* the positions of the commas and newlines of a text that separate fields:
\* those with an even number of quotes before them (RFC 4180)
Separators(text) ==
    LET quotes == {q \in 1..Len(text) : CharAt(text, q) = "\""}
    IN  {p \in 1..Len(text) :
            /\ CharAt(text, p) \in {",", "\n"}
            /\ Cardinality({q \in quotes : q < p}) % 2 = 0}

\* the spans <<first, last>> into which the positions `cuts` divide the
\* positions lo..hi, in order
Spans(cuts, lo, hi) ==
    LET ends == {p \in cuts : lo <= p /\ p <= hi} \cup {hi + 1}
    IN  [k \in 1..Cardinality(ends) |->
            LET e == CHOOSE x \in ends : Cardinality({p \in ends : p < x}) = k - 1
            IN  <<IF k = 1 THEN lo
                  ELSE 1 + CHOOSE x \in ends :
                               Cardinality({p \in ends : p < x}) = k - 2,
                  e - 1>>]

\* the fields of the record that lies in a span of the text
FieldsOf(text, commas, span) ==
    [f \in 1..Len(Spans(commas, span[1], span[2])) |->
        FieldValue(Substring(text, Spans(commas, span[1], span[2])[f][1],
                                   Spans(commas, span[1], span[2])[f][2]))]

\* the records of a text: a newline separator ends a record, a comma
\* separator ends a field
RecordsOf(text, newlines, commas) ==
    [r \in 1..Len(Spans(newlines, 1, Len(text))) |->
        FieldsOf(text, commas, Spans(newlines, 1, Len(text))[r])]

\* a conforming CSV reader
ReadCsv(text) ==
    RecordsOf(text, {p \in Separators(text) : CharAt(text, p) = "\n"},
              {p \in Separators(text) : CharAt(text, p) = ","})

\* the labels of the eight exported columns
CsvLabels ==
    <<"ID", "Name", "Age", "Grade", "Email", "Phone", "Major", "Status">>

\* the display strings of the eight exported fields of a record
DisplayFields(row) ==
    <<row.id, row.name, IntToStr(row.age), IntToStr(row.grade), row.email,
      row.phone, row.major, row.status>>

\* a click on Export CSV, seen by the download it makes
ExportStep ==
    /\ output' # output
    /\ output' # Null
    /\ Val(output').kind = "download"

\* the exported rows in the order of the derived view: as the table shows
\* them under the sort rules
ExportedInViewOrder ==
    IF Len(sorting) = 0 THEN rowsToExport
    ELSE SortRows(rowsToExport, sorting)

\* C24: the text of an export, read by a conforming CSV reader, is the
\* record of the labels followed by one record per exported row whose
\* eight fields are the row's display strings, commas and quotes included.
C24_CsvRoundTrip ==
    [][ExportStep =>
          ReadCsv(Val(output').text)
              = <<CsvLabels>>
                    \o [k \in 1..Len(rowsToExport) |->
                           DisplayFields(data[rowsToExport[k]])]]_vars

\* the download holds the second record, whose email was committed with
\* a quote and a comma in it
C24_Witness ==
    /\ data[2].email = "a\",b@c.de"
    /\ rowSelection = {}
    /\ Len(columnFilters) = 0
    /\ output = Some([kind |-> "download", text |-> csvContent(rowsToExport, 0)])

\* C25: an export has the line of the labels and then one line per
\* exported row, and the k-th data line is the line of the k-th exported
\* row in the order of the derived view (filtered, then sorted).
C25_CsvLinesInViewOrder ==
    [][ExportStep =>
          LET records == ReadCsv(Val(output').text)
          IN  /\ Len(records) = 1 + Len(rowsToExport)
              /\ records[1] = CsvLabels
              /\ \A k \in 1..Len(rowsToExport) :
                     records[k + 1][1] = data[ExportedInViewOrder[k]].id]_vars

====
